---- MODULE Spec2Model ----
(***************************************************************************)
(* Verification model of the test-only MuSig / MuSig2 implementation in    *)
(* test/functional/test_framework/musig.py.                                *)
(*                                                                         *)
(* The curve is a scaled-down secp256k1: the same equation y^2 = x^3 + 7,  *)
(* over GF(13) instead of GF(2^256 - 2^32 - 977).  Its group has prime     *)
(* order 7, so every point other than infinity is a multiple k*G of the    *)
(* generator with 1 <= k <= 6.  A point is represented by that k (0 is the *)
(* point at infinity); its affine coordinates are looked up in PointXY,    *)
(* which is computed with the curve's group law.                           *)
(*                                                                         *)
(* A 32-byte string is the one-element tuple <<v>> of the number it holds  *)
(* (the x-only arguments of partial_schnorr_sign and the secret scalars    *)
(* are passed as the bare number), a compressed point is <<sign byte, x>>. *)
(* Python's None is the empty tuple, and an Optional[int] field holds      *)
(* <<v>>.                                                                  *)
(***************************************************************************)
EXTENDS Integers, Sequences, FiniteSets, TLC

None == <<>>
Some(v) == <<v>>
Val(o) == o[1]

(***************************************************************************)
(* Bounds of the model                                                     *)
(***************************************************************************)
\* an aggregate is built from 1..MaxSigners keys
MaxSigners == 2
\* in an honest run private keys, secret nonces and tweaks are in 1..MaxScalar
MaxScalar == 3
\* messages are drawn from 1..NumMsgs
NumMsgs == 2

(***************************************************************************)
(* Curve primitives (test_framework.key: SECP256K1, ECKey, ECPubKey)       *)
(***************************************************************************)
FieldP == 13
CurveB == 7
SECP256K1_ORDER == 7
\* affine coordinates of the generator
GenXY == <<7, 5>>

ModP(v) == ((v % FieldP) + FieldP) % FieldP
ModN(v) == ((v % SECP256K1_ORDER) + SECP256K1_ORDER) % SECP256K1_ORDER
InvP(v) == CHOOSE z \in 1..(FieldP - 1) : ModP(z * v) = 1

\* affine group law; <<>> is the point at infinity
AffineAdd(P, Q) ==
    IF P = <<>> THEN Q
    ELSE IF Q = <<>> THEN P
    ELSE IF P[1] = Q[1] /\ ModP(P[2] + Q[2]) = 0 THEN <<>>
    ELSE LET l == IF P = Q THEN ModP(3 * P[1] * P[1] * InvP(2 * P[2]))
                           ELSE ModP((Q[2] - P[2]) * InvP(Q[1] - P[1]))
             x == ModP(l * l - P[1] - Q[1])
         IN  <<x, ModP(l * (P[1] - x) - P[2])>>

RECURSIVE AffineMul(_)
AffineMul(k) == IF k = 0 THEN <<>> ELSE AffineAdd(AffineMul(k - 1), GenXY)

\* PointXY[k] are the affine coordinates of k*G, 1 <= k < SECP256K1_ORDER
PointXY == [k \in 1..(SECP256K1_ORDER - 1) |-> AffineMul(k)]

Points == 1..(SECP256K1_ORDER - 1)
Infinity == 0
\* an ECPubKey whose valid flag is False (set() was given no curve point)
InvalidPoint == 0 - 1

\* SECP256K1.mul: the multi-scalar product, ps a sequence of <<point, scalar>>
RECURSIVE EcMul(_)
EcMul(ps) ==
    IF ps = <<>> THEN Infinity
    ELSE ModN(Head(ps)[1] * Head(ps)[2] + EcMul(Tail(ps)))

\* SECP256K1.has_even_y of a point other than infinity
HasEvenY(pt) == PointXY[pt][2] % 2 = 0
\* SECP256K1.negate
Negate(pt) == ModN(0 - pt)
\* SECP256K1.on_curve: on the curve and not infinity
OnCurve(pt) == pt \in Points
\* SECP256K1.lift_x: the point with this x and even y, None when x is no x-coordinate
LiftX(x) ==
    IF \E k \in Points : PointXY[k][1] = x
    THEN Some(CHOOSE k \in Points : PointXY[k][1] = x /\ HasEvenY(k))
    ELSE None
\* ECPubKey.get_bytes starts with assert(self.valid)
GetBytesAsserts(pt) == pt = InvalidPoint
\* ECPubKey.get_bytes (compressed): sign byte 0x02 / 0x03, then x; None at infinity
GetBytes(pt) ==
    IF pt \notin Points THEN None
    ELSE <<2 + (PointXY[pt][2] % 2), PointXY[pt][1]>>
\* ECKey.set(...).valid
ValidSecret(x) == x > 0 /\ x < SECP256K1_ORDER
\* ECKey.get_pubkey of a valid secret: secret * G
PubOf(x) == ModN(x)

(***************************************************************************)
(* Hashes (hashlib.sha256, test_framework.key.TaggedHash): a digest is a   *)
(* number below HashMod, absorbed one input number at a time.              *)
(***************************************************************************)
HashMod == 251
Sha256IV == 17
ChallengeIV == 101

RECURSIVE Absorb(_, _)
Absorb(acc, data) ==
    IF data = <<>> THEN acc
    ELSE Absorb((acc * 31 + Head(data) + 1) % HashMod, Tail(data))

Sha256(data) == Absorb(Sha256IV, data)
\* TaggedHash("BIP0340/challenge", data)
TaggedHashChallenge(data) == Absorb(ChallengeIV, data)

RECURSIVE Concat(_)
Concat(seqs) == IF seqs = <<>> THEN <<>> ELSE Head(seqs) \o Concat(Tail(seqs))

RECURSIVE SumSeq(_)
SumSeq(s) == IF s = <<>> THEN 0 ELSE Head(s) + SumSeq(Tail(s))

(***************************************************************************)
(* Key aggregation: class MuSig                                            *)
(*                                                                         *)
(* A signer key (BIP32 .key) is [pub |-> FALSE, v |-> secret] for an ECKey *)
(* and [pub |-> TRUE, v |-> point] for an ECPubKey.                        *)
(***************************************************************************)
PrivKey(x) == [pub |-> FALSE, v |-> x]
PubKey(pt) == [pub |-> TRUE, v |-> pt]

\* k.neuter().key: the signer's public point
Neuter(k) == IF k.pub THEN k.v ELSE PubOf(k.v)

\* mul.append(int.from_bytes(h.digest(), 'big') % SECP256K1_ORDER), for every i
HashedMul(keys) ==
    LET basedata == Concat([i \in 1..Len(keys) |-> GetBytes(Neuter(keys[i]))])
    IN  [i \in 1..Len(keys) |-> Sha256(basedata \o <<i - 1>>) % SECP256K1_ORDER]

\* p = SECP256K1.mul([(k.neuter().key.p, m) for k, m in zip(keys, mul)])
WeightedSum(keys, mul) ==
    EcMul([i \in 1..Len(keys) |-> <<Neuter(keys[i]), mul[i]>>])

\* the hashed multipliers kept when the point is negated
StoredMulUnnegated(mul, evenY) == mul

\* self.mul: the multipliers are negated when the raw sum has odd y
StoredMul(mul, evenY) ==
    IF evenY THEN mul ELSE [i \in 1..Len(mul) |-> SECP256K1_ORDER - mul[i]]

\* self.pts[i]: an int for a signer holding a secret, a point otherwise
ContributionKey(k, m) ==
    IF k.pub THEN [int |-> FALSE, v |-> EcMul(<<<<k.v, m>>>>)]
    ELSE [int |-> TRUE, v |-> (k.v * m) % SECP256K1_ORDER]

\* the keys' bytes joined with no key rejected
KeyBytesAccepted(keys) == FALSE

\* b"".join([k.neuter().key.get_bytes() for k in keys]) raises: get_bytes
\* asserts on an invalid key, and join takes no None (a key at infinity)
KeyBytesRaise(keys) ==
    \E i \in 1..Len(keys) :
        GetBytesAsserts(Neuter(keys[i])) \/ GetBytes(Neuter(keys[i])) = None

\* MuSig.__init__; it raises (ok = FALSE) on the keys' bytes, and when the
\* weighted sum is the point at infinity: SECP256K1.affine gives None, which
\* has_even_y cannot index
MuSigNew(keys) ==
    LET mul == HashedMul(keys)
        raw == WeightedSum(keys, mul)
    IN  IF KeyBytesRaise(keys) \/ raw = Infinity
        THEN [ok |-> FALSE, keys |-> keys]
        ELSE LET evenY == HasEvenY(raw)
                 smul == StoredMul(mul, evenY)
             IN  [ok |-> TRUE,
                  keys |-> keys,
                  mul |-> smul,
                  negated |-> ~evenY,
                  pubkey |-> IF evenY THEN raw ELSE Negate(raw),
                  pts |-> [i \in 1..Len(keys) |-> ContributionKey(keys[i], smul[i])]]

\* MuSig.xonly: asserts the sign byte is 0x02
XOnly(m) ==
    LET pk == GetBytes(m.pubkey)
    IN  IF pk[1] = 2 THEN [ok |-> TRUE, ret |-> pk[2]] ELSE [ok |-> FALSE, ret |-> None]

(***************************************************************************)
(* Partial Schnorr signing                                                 *)
(***************************************************************************)
\* e = int.from_bytes(TaggedHash("BIP0340/challenge", ...), 'big') % SECP256K1_ORDER
Challenge(pubnonce, pubkey, msg) ==
    TaggedHashChallenge(<<pubnonce, pubkey>> \o msg) % SECP256K1_ORDER

\* the range test of a partial nonce that is not None
NonceOutOfRange(partialnonce) ==
    partialnonce <= 0 \/ partialnonce >= SECP256K1_ORDER

\* partial_schnorr_sign: None, or the 32 bytes of (nonce + e * key) mod n;
\* partialnonce is None or Some(scalar)
partial_schnorr_sign(pubnonce, pubkey, msg, partialkey, partialnonce) ==
    IF partialkey <= 0 \/ partialkey >= SECP256K1_ORDER THEN None
    ELSE IF partialnonce # None /\ NonceOutOfRange(Val(partialnonce)) THEN None
    ELSE IF LiftX(pubkey) = None \/ LiftX(pubnonce) = None THEN None
    ELSE LET k == IF partialnonce = None THEN 0 ELSE Val(partialnonce)
             e == Challenge(pubnonce, pubkey, msg)
         IN  Some((k + e * partialkey) % SECP256K1_ORDER)

(***************************************************************************)
(* The signing session: dataclass MuSig2.  A method is an operator from    *)
(* the aggregate m and the session s to [s |-> the session afterwards,     *)
(* ok |-> FALSE when it raised, ret |-> what it returned].                 *)
(***************************************************************************)
NoneList(m) == [j \in 1..Len(m.keys) |-> None]

\* MuSig2(musig, msg, pubkeytweak) and __post_init__
NewSession(m, msg, tweak) ==
    [msg |-> msg,
     pubkeytweak |-> tweak,
     secretpairs |-> NoneList(m),
     noncepairs |-> NoneList(m),
     b |-> None,
     r |-> None,
     partial |-> NoneList(m),
     sig |-> None]

Returned(s, v) == [s |-> s, ok |-> TRUE, ret |-> v]
Raised(s) == [s |-> s, ok |-> FALSE, ret |-> None]

\* the fields set_nonce resets
NonceReset(m, s) == [s EXCEPT !.b = None, !.partial = NoneList(m), !.sig = None]

set_nonce(m, s, i, r1g, r2g) ==
    Returned(NonceReset(m, [s EXCEPT !.noncepairs[i] = <<r1g, r2g>>]), None)

\* set_secret as it would be with the two public nonces passed in the wrong order
set_secret_swapped(m, s, i, r1, r2) ==
    LET s1 == [s EXCEPT !.secretpairs[i] = <<r1, r2>>]
    IN  IF ~(ValidSecret(r1) /\ ValidSecret(r2)) THEN Raised(s1)
        ELSE Returned([s1 EXCEPT !.noncepairs[i] = <<PubOf(r2), PubOf(r1)>>,
                                 !.b = None, !.partial = [j \in 1..Len(m.keys) |-> None],
                                 !.sig = None], None)

\* MakeECKey(r).get_pubkey() asserts that the secret is valid, after
\* secretpairs[i] has been assigned
set_secret(m, s, i, r1, r2) ==
    LET s1 == [s EXCEPT !.secretpairs[i] = <<r1, r2>>]
    IN  IF ~(ValidSecret(r1) /\ ValidSecret(r2)) THEN Raised(s1)
        ELSE set_nonce(m, s1, i, PubOf(r1), PubOf(r2))

\* the fields set_msg resets
MsgReset(m, s) == [s EXCEPT !.partial = NoneList(m), !.sig = None]

set_msg(m, s, msg) ==
    Returned(MsgReset(m, [s EXCEPT !.msg = msg]), None)

\* the binding coefficient: sha256(pk || R1_1 || R2_1 || ... || msg) mod n
BindingCoefficient(m, s) ==
    LET nonces == Concat([i \in 1..Len(m.keys) |->
                     GetBytes(s.noncepairs[i][1]) \o GetBytes(s.noncepairs[i][2])])
    IN  Sha256(GetBytes(m.pubkey) \o nonces \o s.msg) % SECP256K1_ORDER

\* pt_r.p: the sum of all R1_i plus b times the sum of all R2_i
AggregateNonce(m, s, b) ==
    EcMul([i \in 1..Len(m.keys) |-> <<s.noncepairs[i][1], 1>>]
          \o [i \in 1..Len(m.keys) |-> <<s.noncepairs[i][2], b>>])

\* the assert dropped: any result of the multiplication is accepted
NonceValidUnchecked(pt) == TRUE

\* assert pt_r.valid
NonceValid(pt) == OnCurve(pt)

\* calc_b_r as it would be if it skipped the signers whose nonces are missing
calc_b_r_skips_missing(m, s) ==
    IF s.msg = None THEN Raised(s)
    ELSE LET known == SelectSeq(s.noncepairs, LAMBDA np : np # None)
             nonces == Concat([i \in 1..Len(known) |->
                           GetBytes(known[i][1]) \o GetBytes(known[i][2])])
             b == Sha256(GetBytes(m.pubkey) \o nonces \o s.msg) % SECP256K1_ORDER
             pt == EcMul([i \in 1..Len(known) |-> <<known[i][1], 1>>]
                         \o [i \in 1..Len(known) |-> <<known[i][2], b>>])
         IN  IF ~OnCurve(pt) THEN Raised([s EXCEPT !.b = Some(b)])
             ELSE Returned([s EXCEPT !.b = Some(b), !.r = GetBytes(pt)], None)

calc_b_r(m, s) ==
    IF \E i \in 1..Len(m.keys) : s.noncepairs[i] = None THEN Raised(s)
    ELSE IF s.msg = None THEN Raised(s)
    ELSE LET b == BindingCoefficient(m, s)
             s1 == [s EXCEPT !.b = Some(b)]
             pt == AggregateNonce(m, s, b)
         IN  IF ~NonceValid(pt) THEN Raised(s1)
             ELSE Returned([s1 EXCEPT !.r = GetBytes(pt)], None)

\* calc_pubkey returns the 33 bytes <<0x02, x>>; it raises when the tweaked
\* point is the point at infinity (affine gives None)
calc_pubkey(m, s) ==
    LET p == GetBytes(m.pubkey)
    IN  IF p[1] # 2 THEN Raised(s)
        ELSE IF s.pubkeytweak = None THEN Returned(s, p)
        ELSE LET neg == IF s.pubkeytweak[1] THEN 0 - 1 ELSE 1
                 pt == Val(LiftX(p[2]))
                 t == ModN(SECP256K1_ORDER + neg * s.pubkeytweak[2])
                 q == EcMul(<<<<pt, neg>>, <<1, t>>>>)
             IN  IF q = Infinity THEN Raised(s)
                 ELSE Returned(s, <<2, PointXY[q][1]>>)

\* calc_sig as it would be if it summed the slots that are filled
calc_sig_sums_filled(m, s) ==
    LET filled == SelectSeq(s.partial, LAMBDA p : p # None)
        sum == SumSeq([i \in 1..Len(filled) |-> Val(filled[i])]) % SECP256K1_ORDER
    IN  IF filled = <<>> \/ s.r = None THEN Raised(s) ELSE Returned(s, <<s.r[2], sum>>)

\* assert all(p is not None for p in self.partial)
AllPartials(m, s) == \A i \in 1..Len(m.keys) : s.partial[i] # None

\* calc_sig as it would be if the tweak term were added once for each signer
calc_sig_tweak_per_signer(m, s) ==
    IF ~AllPartials(m, s) \/ s.r = None \/ s.msg = None THEN Raised(s)
    ELSE LET sum == SumSeq([i \in 1..Len(m.keys) |-> Val(s.partial[i])]) % SECP256K1_ORDER
             pk == calc_pubkey(m, s)
         IN  IF s.pubkeytweak = None THEN Returned(s, <<s.r[2], sum>>)
             ELSE IF ~pk.ok THEN Raised(s)
             ELSE LET extra_s == partial_schnorr_sign(s.r[2], pk.ret[2], s.msg,
                                                      s.pubkeytweak[2], None)
                      s2 == (sum + Len(m.keys) * Val(extra_s)) % SECP256K1_ORDER
                  IN  Returned(s, <<s.r[2], IF s.pubkeytweak[1]
                                            THEN SECP256K1_ORDER - s2 ELSE s2>>)

calc_sig(m, s) ==
    IF ~AllPartials(m, s) THEN Raised(s)
    ELSE LET sum == SumSeq([i \in 1..Len(m.keys) |-> Val(s.partial[i])]) % SECP256K1_ORDER
         IN  IF s.pubkeytweak = None
             THEN IF s.r = None THEN Raised(s) ELSE Returned(s, <<s.r[2], sum>>)
             ELSE LET pk == calc_pubkey(m, s)
                  IN  IF ~pk.ok \/ s.r = None \/ s.msg = None THEN Raised(s)
                      ELSE LET extra_s == partial_schnorr_sign(s.r[2], pk.ret[2], s.msg,
                                                               s.pubkeytweak[2], None)
                           IN  IF extra_s = None THEN Raised(s)
                               ELSE LET s2 == (sum + Val(extra_s)) % SECP256K1_ORDER
                                        s3 == IF s.pubkeytweak[1]
                                              THEN SECP256K1_ORDER - s2 ELSE s2
                                    IN  Returned(s, <<s.r[2], s3>>)

\* the asserts without the test that the signer's contribution is an int
CanCalcPartialAnySigner(m, s, i) ==
    /\ s.secretpairs[i] # None
    /\ s.b # None /\ s.r # None

\* the three asserts that open calc_partial
CanCalcPartial(m, s, i) ==
    /\ m.pts[i].int
    /\ s.secretpairs[i] # None
    /\ s.b # None /\ s.r # None

\* "if self.r[0] == 0x03: my_r = SECP256K1_ORER - my_r" names an undefined
\* symbol: with an odd aggregate nonce calc_partial raises NameError
calc_partial(m, s, i) ==
    IF ~CanCalcPartial(m, s, i) THEN Raised(s)
    ELSE LET r1 == s.secretpairs[i][1]
             r2 == s.secretpairs[i][2]
             key == m.pts[i].v
             my_r == (r1 + Val(s.b) * r2) % SECP256K1_ORDER
             pk == calc_pubkey(m, s)
         IN  IF s.r[1] = 3 THEN Raised(s)
             ELSE IF ~pk.ok \/ s.msg = None THEN Raised(s)
             ELSE Returned([s EXCEPT !.partial[i] =
                     partial_schnorr_sign(s.r[2], pk.ret[2], s.msg, key, Some(my_r))],
                     None)

set_partial(m, s, i, partial) ==
    IF s.b = None \/ s.r = None THEN Raised(s)
    ELSE Returned([s EXCEPT !.partial[i] = partial], None)

(***************************************************************************)
(* Inputs                                                                  *)
(***************************************************************************)
\* 32-byte messages
Msgs == {Some(v) : v \in 1..NumMsgs}
\* in-range secret nonce pairs of a session: (1, 1) and (n - 1, 1), whose
\* first points G and -G cancel
ValidPairInputs == {<<1, 1>>, <<SECP256K1_ORDER - 1, 1>>}
\* secret nonce pairs passed to set_secret: in range, or with a zero, or with
\* the curve order
SecretPairInputs == ValidPairInputs \cup {<<0, 1>>, <<1, SECP256K1_ORDER>>}
\* public nonce points passed to set_nonce
NoncePairInputs == {<<PubOf(rr[1]), PubOf(rr[2])>> : rr \in ValidPairInputs}
\* partial signatures passed to set_partial
PartialInputs == {Some(1)}
\* the aggregates sessions are opened on
SessionKeyLists ==
    {<<PrivKey(1)>>, <<PrivKey(1), PrivKey(1)>>, <<PrivKey(2), PubKey(1)>>}
SessionTweaks == {None, <<TRUE, 1>>}

(***************************************************************************)
(* class RevocableSecret (feature_ln_ptlc.py).  SHA256 is a one-way,       *)
(* injective symbol here: a 32-byte string is <<a, k>>, the digest reached *)
(* by k applications of SHA256 to the k = 0 string number a.  An object is *)
(* the record of its attributes; a method gives [ok |-> FALSE when it      *)
(* raised, ret |-> what it returned].                                      *)
(***************************************************************************)
\* ceilings passed to the constructor run over -1..MaxCeiling
MaxCeiling == 3
\* 32-byte seeds are the strings <<a, 0>>, a in 1..NumSeeds
NumSeeds == 2

max_ceiling == 10000

\* hashlib.sha256(d).digest()
Sha256Digest(d) == <<d[1], d[2] + 1>>

\* the digest after n rounds of the loop; range(n) is empty for n <= 0
RECURSIVE HashTimes(_, _)
HashTimes(d, n) == IF n <= 0 THEN d ELSE HashTimes(Sha256Digest(d), n - 1)

\* isinstance(seed, bytes) and len(seed) == 32; the other byte string of
\* the model is the empty one
IsSeed32(seed) == Len(seed) = 2

\* RevocableSecret(seed, ceiling): the attributes seed and ceiling
RevocableSecret(seed, ceiling) ==
    LET c == IF ceiling = None THEN max_ceiling ELSE Val(ceiling)
    IN  IF ~(0 <= c /\ c <= max_ceiling) THEN [ok |-> FALSE, ret |-> None]
        ELSE IF ~IsSeed32(seed) THEN [ok |-> FALSE, ret |-> None]
        ELSE [ok |-> TRUE, ret |-> [seed |-> seed, ceiling |-> c]]

\* RevocableSecret.get: the loop bound reads self.level, an attribute that
\* neither the class nor __init__ defines, which raises AttributeError
get(self, level) ==
    IF ~(level < self.ceiling) THEN [ok |-> FALSE, ret |-> None]
    ELSE IF "level" \notin DOMAIN self THEN [ok |-> FALSE, ret |-> None]
    ELSE [ok |-> TRUE, ret |-> HashTimes(self.seed, self.ceiling - self.level)]

Min(a, b) == IF a <= b THEN a ELSE b

\* RevocableSecret.__eq__
eq(self, other) ==
    LET m == Min(self.ceiling, other.ceiling)
        mine == get(self, m)
        theirs == get(other, m)
    IN  IF ~mine.ok \/ ~theirs.ok THEN [ok |-> FALSE, ret |-> None]
        ELSE [ok |-> TRUE, ret |-> (mine.ret = theirs.ret)]

\* RevocableSecret2(i, j, seed1, seed2): the attributes top and sec
RevocableSecret2(i, j, seed1, seed2) ==
    LET top == RevocableSecret(seed1, i)
        sec == RevocableSecret(seed2, j)
    IN  IF ~top.ok \/ ~sec.ok THEN [ok |-> FALSE, ret |-> None]
        ELSE [ok |-> TRUE, ret |-> [top |-> top.ret, sec |-> sec.ret]]

\* RevocableSecret2._secseeder
secseeder(self, i) ==
    LET d == get(self.top, i)
    IN  IF ~d.ok THEN [ok |-> FALSE, ret |-> None] ELSE RevocableSecret(d.ret, None)

\* the names bound at module level, with _secseeder among them
ModuleNamesWithSeeder == {"RevocableSecret", "RevocableSecret2", "hashlib", "_secseeder"}

\* the names bound at module level that the classes use: _secseeder is a
\* method, bound in the class only
ModuleNames == {"RevocableSecret", "RevocableSecret2", "hashlib"}

\* RevocableSecret2.get(i, j), j = None when omitted: its last branch
\* calls _secseeder(i) without self, which raises NameError
get2(self, i, j) ==
    IF j = None THEN get(self.top, i)
    ELSE IF i = self.top.ceiling THEN get(self.sec, Val(j))
    ELSE IF "_secseeder" \notin ModuleNames THEN [ok |-> FALSE, ret |-> None]
    ELSE LET seeder == secseeder(self, i)
         IN  IF ~seeder.ok THEN [ok |-> FALSE, ret |-> None]
             ELSE get(seeder.ret, Val(j))

\* seeds and ceilings given to the constructor, levels given to get
Seeds == {<<a, 0>> : a \in 1..NumSeeds}
SeedInputs == Seeds \cup {<<>>}
CeilingInputs ==
    {None, Some(max_ceiling), Some(max_ceiling + 1)}
        \cup {Some(c) : c \in (0 - 1)..MaxCeiling}
LevelInputs == (0 - 1)..(MaxCeiling + 1)
\* the ceilings i and j given to RevocableSecret2, the level j given to its get
Ceiling2Inputs == {Some(c) : c \in (0 - 1)..MaxCeiling}
SubLevelInputs == {None} \cup {Some(l) : l \in LevelInputs}

NoCall == [op |-> "none", ok |-> TRUE, ret |-> None, self |-> None, level |-> 0]
NoRev == [a |-> None, b |-> None, call |-> NoCall]

(***************************************************************************)
(* The signet miner: do_generate (contrib/signet/generate.py).  The node   *)
(* behind bitcoin-cli is the height of its chain tip, which other miners   *)
(* raise; getblocktemplate gives the height after the tip.  The sleep      *)
(* before each template (lines 316-328) changes neither the counters nor   *)
(* the expected height.  An address is <<name, index>>: the --address      *)
(* given, or a descriptor's derivation at an index.                        *)
(***************************************************************************)
\* the block count N on the command line runs over -2..MaxN
MaxN == 2
\* at most MaxIters iterations of the loop are followed
MaxIters == 4
\* the chain tip stays at or below MaxHeight
MaxHeight == 4

\* any block count accepted
BadNNever(N) == FALSE

\* "N must be an integer, and at least -1"; argparse makes N an int
BadN(N) == N < 0 - 1
\* "Target mining time must be between 1 and 600"
BadTargetMiningTime(t) == t # None /\ (Val(t) <= 0 \/ Val(t) > 600)

\* the loop left one attempt late
LoopConditionInclusive(N, mined_blocks) == N <= 0 \/ mined_blocks <= N

\* while args.N <= 0 or mined_blocks < args.N
LoopCondition(N, mined_blocks) == N <= 0 \/ mined_blocks < N

\* gbt_first_block(challenge)["height"]: gbci["blocks"] + 1 with gbci["blocks"] = 0
FirstBlockHeight == 0 + 1

\* tmpl["height"]
TemplateHeight(nextblock, tip) == IF nextblock = 1 THEN FirstBlockHeight ELSE tip + 1

Max(a, b) == IF a >= b THEN a ELSE b

\* last_mine_time = 600, never assigned again
LastMineTime == 600

\* lines 317-321, in whole seconds: args.block_time when positive, else
\* (600.0*2016/2015) * (last_mine_time / args.target_mining_time) kept
\* within 150..2400; the division by None raises TypeError
SleepBlockTime(block_time, target_mining_time) ==
    IF block_time > 0 THEN Some(block_time)
    ELSE IF target_mining_time = None THEN None
    ELSE Some(Max(150, Min((600 * 2016 * LastMineTime) \div (2015 * Val(target_mining_time)),
                          2400)))

\* the start time left where it was
NextStartStays(start, block_time) == start

\* lines 323-328: "if block_time > 0: next_time = start + block_time ...
\* start = next_time"
NextStart(start, block_time) == IF block_time > 0 THEN start + block_time ELSE start

\* lines 310-313: "if args.backdate: start = min(args.backdate,
\* bci["mediantime"] + 1) else: start = time.time()"
StartTimeOf(backdate, mediantime, now) ==
    IF backdate # None /\ Val(backdate) # 0
    THEN Min(Val(backdate), mediantime + 1)
    ELSE now

\* generate_psbt, lines 226-228: block.nTime
generate_psbt_nTime(tmpl, blocktime) ==
    LET nTime == IF blocktime = None THEN tmpl.curtime ELSE Val(blocktime)
    IN  IF nTime < tmpl.mintime THEN tmpl.mintime ELSE nTime

\* a PSBT taken as signed whatever walletprocesspsbt returned
SigningFailedNever(outcome) == FALSE

\* not psbt_signed.get("complete", False)
SigningFailed(outcome) == outcome = "incomplete"

\* a secondary miner that never waits
ShouldWaitNever(secondary, height, nextblock) == FALSE

\* if args.secondary and tmpl["height"] > nextblock
ShouldWait(secondary, height, nextblock) == secondary /\ height > nextblock

\* main: neither or both of --address and --descriptor
BadPayoutArgs(address, descriptor) ==
    (address = None /\ descriptor = None) \/ (address # None /\ descriptor # None)

\* hasattr(args, "address") and hasattr(args, "descriptor"): the sub-commands
\* genpsbt and generate
HasPayoutArgs(cmd) == cmd \in {"genpsbt", "generate"}

\* '*' in args.descriptor
IsRanged(descriptor) == descriptor = Some("ranged")

\* age at which a derived address is dropped, and how far ahead of the
\* height deriveaddresses is asked to go
EvictAge == 20
DeriveAhead == 20

\* deriveaddresses taking the range to start at index 0
DeriveAddressesFromZero(descriptor, first, last) ==
    [k \in 1..(last - first + 1) |-> <<descriptor, k - 1>>]

\* the addresses deriveaddresses gives for the range [first, last]
DeriveAddresses(descriptor, first, last) ==
    [k \in 1..(last - first + 1) |-> <<descriptor, first + k - 1>>]

\* getaddressinfo(addr)["scriptPubKey"]
ScriptPubKey(addr) == <<"spk", addr>>

\* get_reward_address: [args |-> args afterwards, ret |-> the address,
\* cli |-> the bitcoin-cli commands it ran]
get_reward_address(args, height) ==
    IF args.address # None
    THEN [args |-> args, ret |-> args.address, cli |-> {}]
    ELSE IF ~IsRanged(args.descriptor)
    THEN LET addr == <<Val(args.descriptor), 0>>
         IN  [args |-> [args EXCEPT !.address = addr], ret |-> addr,
              cli |-> {"deriveaddresses"}]
    ELSE LET kept == {k \in DOMAIN args.derived_addresses : ~(k + EvictAge <= height)}
             derived == [k \in kept |-> args.derived_addresses[k]]
         IN  IF height \in kept
             THEN [args |-> [args EXCEPT !.derived_addresses = derived],
                   ret |-> derived[height], cli |-> {}]
             ELSE LET addrs == DeriveAddresses(Val(args.descriptor), height, height + DeriveAhead)
                      filled == [k \in kept \cup {height + j - 1 : j \in 1..Len(addrs)} |->
                                    IF k >= height /\ k - height + 1 <= Len(addrs)
                                    THEN addrs[k - height + 1] ELSE derived[k]]
                  IN  [args |-> [args EXCEPT !.derived_addresses = filled],
                       ret |-> addrs[1], cli |-> {"deriveaddresses"}]

\* the scriptPubKey cached whatever the payout
CachesAlways(args) == TRUE

\* "if args.address is not None: args.reward_spk = reward_spk"
CachesRewardSpk(args) == args.address # None

\* get_reward_addr_spk: ok is FALSE when its assertion fails, ret is
\* <<reward_addr, reward_spk>>; reward_spk = None stands for args having no
\* attribute reward_spk
get_reward_addr_spk(args, height) ==
    IF args.address = None /\ args.descriptor = None
    THEN [args |-> args, ok |-> FALSE, ret |-> None, cli |-> {}]
    ELSE IF args.reward_spk # None
    THEN [args |-> args, ok |-> TRUE, ret |-> <<args.address, args.reward_spk>>, cli |-> {}]
    ELSE LET found == get_reward_address(args, height)
             reward_spk == ScriptPubKey(found.ret)
         IN  [args |-> IF CachesRewardSpk(found.args)
                       THEN [found.args EXCEPT !.reward_spk = reward_spk]
                       ELSE found.args,
              ok |-> TRUE,
              ret |-> <<found.ret, reward_spk>>,
              cli |-> found.cli \cup {"getaddressinfo"}]

CmdInputs == {"genpsbt", "solvepsbt", "generate"}
AddressInputs == {None, <<"address", 0>>}
DescriptorInputs == {None, Some("fixed"), Some("ranged")}
NInputs == (0 - 2)..MaxN
TargetMiningTimeInputs == {None, Some(0), Some(20), Some(601)}
\* walletprocesspsbt leaves the PSBT incomplete, or completes it and
\* submitblock accepts or rejects the block
SigningOutcomes == {"incomplete", "accepted", "rejected"}

\* --block-time and --backdate; time.time() when do_generate starts and
\* bci["mediantime"]; the templates' mintime and curtime
BlockTimeInputs == {0, 600}
BackdateInputs == {None, Some(0), Some(400), Some(900)}
ClockInputs == {501}
MedianTimeInputs == {500}
TemplateInputs ==
    {[mintime |-> 450, curtime |-> 400], [mintime |-> 3500, curtime |-> 3600]}

\* block_time is the one the iteration computed, blocktime the start time
\* it passed to generate_psbt, nTime the block's time
NoIteration ==
    [height |-> 0, expected |-> 0, signed |-> FALSE, complete |-> FALSE,
     submitted |-> FALSE, block_time |-> 0, mintime |-> 0, nTime |-> 0]
\* args as parse_args leaves it; derived_addresses is set by main
NoArgs ==
    [address |-> None, descriptor |-> None, reward_spk |-> None,
     derived_addresses |-> <<>>]
\* argv: --address and --descriptor as given on the command line;
\* reward: the last get_reward_addr_spk call, its height, what it returned
\* and the commands it ran
NoReward == [height |-> 0, ret |-> None, cli |-> {}]
NoMiner ==
    [pc |-> "idle", ret |-> None, cmd |-> "none",
     argv |-> [address |-> None, descriptor |-> None], args |-> NoArgs,
     N |-> 0, target_mining_time |-> None, secondary |-> FALSE, tip |-> 0,
     block_time |-> 0, start |-> 0,
     nextblock |-> 0, mined_blocks |-> 0,
     iters |-> 0, attempts |-> 0, submits |-> 0, it |-> NoIteration,
     cli |-> {}, spk_lookups |-> 0, reward |-> NoReward]

(***************************************************************************)
(* The version-bits test (feature_vb_activation.py).  run_test is a        *)
(* straight-line script; node.generate(num) mines num blocks one after the *)
(* other.  A chain is the sequence of its blocks above the genesis block,  *)
(* a block is 2 * (its time) + (1 if it signals csv), and time is counted  *)
(* in the stages the script sets the mock time to: 0 before self.start,    *)
(* StartTime, FlagTime, EndTime.  The nodes' own rules (the BIP9 threshold *)
(* states, the median time past, the flag-day rule of -vbflagtime, block   *)
(* relay) are bitcoind's.                                                  *)
(***************************************************************************)
\* a threshold one block lower
ThresholdLower == 108 - 1

\* stats["period"], stats["threshold"]
Period == 144
Threshold == 108

\* self.start, self.flag, self.end
StartTime == 1
FlagTime == 2
EndTime == 3

\* the median time past is taken over this many blocks
MedianTimeSpan == 11

VbNodes == 0..2
\* -vbparams=csv:start:end on nodes 0 and 1; node 2 runs -vbparams=csv:0:0
VbAware == {0, 1}
\* -vbflagtime on node 1
VbFlagDay == {1}

Block(signals, time) == 2 * time + (IF signals THEN 1 ELSE 0)
Signals(b) == b % 2 = 1
BlockTime(b) == b \div 2

\* median of the times of the last MedianTimeSpan blocks up to the tip of
\* c, the genesis block (time 0) among them while the chain is short
MedianTimePast(c) ==
    LET n == IF Len(c) + 1 < MedianTimeSpan THEN Len(c) + 1 ELSE MedianTimeSpan
        first == Len(c) - n + 1
        TimeAt(h) == IF h = 0 THEN 0 ELSE BlockTime(c[h])
        AtLeast(m) == Cardinality({h \in first..Len(c) : TimeAt(h) >= m})
    IN  CHOOSE m \in 0..EndTime :
            /\ AtLeast(m) >= n - (n \div 2)
            /\ \A k \in (m + 1)..EndTime : AtLeast(k) < n - (n \div 2)

\* the threshold state of the blocks of period p on chain c, which the
\* blocks up to height p * Period - 1 decide
RECURSIVE ThresholdState(_, _)
ThresholdState(c, p) ==
    IF p = 0 THEN "defined"
    ELSE LET prev == ThresholdState(c, p - 1)
             last == p * Period - 1
             mtp == MedianTimePast(SubSeq(c, 1, last))
             count == Cardinality({h \in (last - Period + 1)..last :
                                      h >= 1 /\ Signals(c[h])})
         IN  CASE prev = "defined" ->
                      IF mtp >= EndTime THEN "failed"
                      ELSE IF mtp >= StartTime THEN "started" ELSE "defined"
               [] prev = "started" ->
                      IF mtp >= EndTime THEN "failed"
                      ELSE IF count >= Threshold THEN "locked_in" ELSE "started"
               [] prev = "locked_in" -> "active"
               [] OTHER -> prev

\* the period of the block after the tip of c
NextPeriod(c) == (Len(c) + 1) \div Period

\* get_bip9_status(node, 'csv')['status']: the state of the block after the tip
get_bip9_status(c) == ThresholdState(c, NextPeriod(c))

\* get_bip9_status(node, 'csv')['statistics']
Statistics(c) ==
    LET elapsed == (Len(c) + 1) % Period
        count == Cardinality({h \in (Len(c) - elapsed + 1)..Len(c) : Signals(c[h])})
    IN  [period |-> Period, threshold |-> Threshold, elapsed |-> elapsed,
         count |-> count, possible |-> (Period - Threshold) >= (elapsed - count)]

\* the version of a block node n mines on c: csv is signalled while the
\* deployment is started or locked in
NodeSignals(n, c) == n \in VbAware /\ get_bip9_status(c) \in {"started", "locked_in"}

\* node n accepts the block at height h of c: a flag-day node refuses a
\* block that does not signal once the median time has passed the flag
\* time and the deployment is still only started
ValidFor(n, c, h) ==
    \/ n \notin VbFlagDay
    \/ Signals(c[h])
    \/ LET before == SubSeq(c, 1, h - 1)
       IN  ~(MedianTimePast(before) >= FlagTime /\ get_bip9_status(before) = "started")

\* the length of the longest prefix two chains share, sought from k downwards
RECURSIVE CommonPrefix(_, _, _)
CommonPrefix(a, b, k) ==
    IF SubSeq(a, 1, k) = SubSeq(b, 1, k) THEN k ELSE CommonPrefix(a, b, k - 1)

\* the height up to which node n accepts c, given that it accepts c up to k
RECURSIVE ValidPrefix(_, _, _)
ValidPrefix(n, c, k) ==
    IF k < Len(c) /\ ValidFor(n, c, k + 1) THEN ValidPrefix(n, c, k + 1) ELSE k

\* the chain of node n, which had own, once c is announced to it: the
\* part of c it accepts if that is longer
Adopt(n, own, c) ==
    LET shorter == IF Len(own) < Len(c) THEN Len(own) ELSE Len(c)
        k == ValidPrefix(n, c, CommonPrefix(own, c, shorter))
    IN  IF k > Len(own) THEN SubSeq(c, 1, k) ELSE own

Stmt(op, a, b) == [op |-> op, a |-> a, b |-> b]
\* the statements of run_test up to its return
Script ==
    << Stmt("heights", <<0, 0, 0>>, 0),
       Stmt("state", {0, 1}, "defined"),
       Stmt("generate", 2, 200),
       Stmt("sync", {0, 1, 2}, 0),
       Stmt("state", {0, 1}, "defined"),
       Stmt("mocktime", StartTime, 0),
       Stmt("generate", 0, 11),
       Stmt("state", {0, 1}, "defined"),
       Stmt("generate", 0, 75),
       Stmt("state", {0, 1}, "defined"),
       Stmt("generate", 0, 1),
       Stmt("sync", {0, 1, 2}, 0),
       Stmt("heights", <<287, 287, 287>>, 0),
       Stmt("state", {0, 1}, "started"),
       Stmt("generate", 1, 50),
       Stmt("sync", {0, 1, 2}, 0),
       Stmt("generate", 2, 37),
       Stmt("sync", {0, 1, 2}, 0),
       Stmt("generate", 0, 57),
       Stmt("sync", {0, 1, 2}, 0),
       Stmt("heights", <<431, 431, 431>>, 0),
       Stmt("state", {0, 1}, "started"),
       Stmt("generate", 2, 100),
       Stmt("mocktime", FlagTime, 0),
       Stmt("generate", 2, 6),
       Stmt("sync", {0, 1, 2}, 0),
       Stmt("heights", <<537, 537, 537>>, 0),
       Stmt("tip", 0, 0),
       Stmt("generate", 2, 5),
       Stmt("sync", {0, 2}, 0),
       Stmt("behind", 1, 0),
       Stmt("generate", 0, 33),
       Stmt("sync", {0, 2}, 0),
       Stmt("state", {0, 1}, "started"),
       Stmt("heights", <<575, 537, 575>>, 0),
       Stmt("generate", 0, 144),
       Stmt("sync", {0, 2}, 0),
       Stmt("heights", <<719, 537, 719>>, 0),
       Stmt("state", {0}, "locked_in"),
       Stmt("generate", 2, 143),
       Stmt("sync", {0, 2}, 0),
       Stmt("state", {0}, "locked_in"),
       Stmt("generate", 2, 1),
       Stmt("sync", {0, 2}, 0),
       Stmt("state", {0}, "active"),
       Stmt("heights", <<863, 537, 863>>, 0),
       Stmt("mocktime", FlagTime, 0),
       Stmt("invalidate", 0, 0),
       Stmt("generate", 2, 1),
       Stmt("sync", {0, 1, 2}, 0),
       Stmt("heights", <<537, 537, 537>>, 0),
       Stmt("tip", 2, 0),
       Stmt("generate", 0, 38),
       Stmt("sync", {0, 1, 2}, 0),
       Stmt("heights", <<575, 575, 575>>, 0),
       Stmt("stats", 1, 0),
       Stmt("generate", 0, 50),
       Stmt("sync", {0, 1, 2}, 0),
       Stmt("heights", <<625, 625, 625>>, 0),
       Stmt("generate", 1, 50),
       Stmt("sync", {0, 1, 2}, 0),
       Stmt("heights", <<675, 675, 675>>, 0),
       Stmt("generate", 2, 35),
       Stmt("sync", {0, 2}, 0),
       Stmt("generate", 0, 5),
       Stmt("sync", {0, 2}, 0),
       Stmt("heights", <<715, 675, 715>>, 0),
       Stmt("generate", 1, 43),
       Stmt("sync", {0, 1, 2}, 0),
       Stmt("heights", <<718, 718, 718>>, 0),
       Stmt("state", {0, 1}, "started"),
       Stmt("generate", 0, 1),
       Stmt("sync", {0, 1, 2}, 0),
       Stmt("state", {0, 1}, "locked_in"),
       Stmt("generate", 2, 144),
       Stmt("sync", {0, 1, 2}, 0),
       Stmt("heights", <<863, 863, 863>>, 0),
       Stmt("state", {0, 1}, "active"),
       Stmt("finished", 0, 0) >>

\* pc: the statement of Script to run next; left: the blocks the generate
\* statement at pc has still to mine (0: not begun); failed: an assertion
\* has failed, or a sync_all has timed out, and the test has stopped
NoVb ==
    [pc |-> 1, left |-> 0, chain |-> [n \in VbNodes |-> <<>>], mocktime |-> 0,
     flag_day_tip |-> <<>>, failed |-> FALSE, finished |-> FALSE]

(***************************************************************************)
(* PSBTMap (contrib/signet/generate.py).  Bytes are sequences of numbers   *)
(* 0..255, a stream is the bytes not yet read.  A map is the sequence of   *)
(* its <<key, value>> pairs in the dict's order, keys distinct; a key is   *)
(* IntKey(k) for the int k or BytesKey(b) for the bytes b.  ser_compact_   *)
(* size and deser_string are test_framework.messages'.                     *)
(***************************************************************************)
IntKey(k) == [int |-> TRUE, b |-> <<k>>]
BytesKey(b) == [int |-> FALSE, b |-> b]

\* little-endian bytes to number
FromLE(b) == SumSeq([i \in 1..Len(b) |-> b[i] * 256 ^ (i - 1)])

\* ser_compact_size(l) for l < 2^16; longer strings are not followed
ser_compact_size(l) ==
    IF l < 253 THEN <<l>> ELSE <<253, l % 256, l \div 256>>

\* deser_compact_size(f): [ok, ret, f |-> the stream afterwards]; reading
\* past the end raises struct.error
deser_compact_size(f) ==
    IF Len(f) = 0 THEN [ok |-> FALSE, ret |-> 0, f |-> f]
    ELSE LET width == IF f[1] < 253 THEN 0 ELSE IF f[1] = 253 THEN 2
                      ELSE IF f[1] = 254 THEN 4 ELSE 8
         IN  IF Len(f) < 1 + width THEN [ok |-> FALSE, ret |-> 0, f |-> <<>>]
             ELSE [ok |-> TRUE,
                   ret |-> IF width = 0 THEN f[1] ELSE FromLE(SubSeq(f, 2, 1 + width)),
                   f |-> SubSeq(f, 2 + width, Len(f))]

\* deser_string(f): f.read(nit) gives what is left when the stream is short
deser_string(f) ==
    LET nit == deser_compact_size(f)
    IN  IF ~nit.ok THEN [ok |-> FALSE, ret |-> <<>>, f |-> nit.f]
        ELSE [ok |-> TRUE,
              ret |-> SubSeq(nit.f, 1, Min(nit.ret, Len(nit.f))),
              f |-> SubSeq(nit.f, Min(nit.ret, Len(nit.f)) + 1, Len(nit.f))]

\* the keys of a sequence of pairs
MapKeys(m) == {m[i][1] : i \in 1..Len(m)}

\* one-byte keys left as byte strings
KeyOfBytesRaw(k) == BytesKey(k)

\* "if len(k) == 1: k = k[0]"
KeyOfBytes(k) == IF Len(k) = 1 THEN IntKey(k[1]) ELSE BytesKey(k)

\* PSBTMap.deserialize reading f into the map m: [ok, map, f]
RECURSIVE deserialize_loop(_, _)
deserialize_loop(m, f) ==
    LET k == deser_string(f)
    IN  IF ~k.ok THEN [ok |-> FALSE, map |-> m, f |-> k.f]
        ELSE IF Len(k.ret) = 0 THEN [ok |-> TRUE, map |-> m, f |-> k.f]
        ELSE LET v == deser_string(k.f)
             IN  IF ~v.ok THEN [ok |-> FALSE, map |-> m, f |-> v.f]
                 ELSE IF KeyOfBytes(k.ret) \in MapKeys(m)
                 THEN [ok |-> FALSE, map |-> m, f |-> v.f]
                 ELSE deserialize_loop(Append(m, <<KeyOfBytes(k.ret), v.ret>>), v.f)

\* PSBTMap.deserialize(f): map is self.map afterwards when ok
PSBTMap_deserialize(f) == deserialize_loop(<<>>, f)

\* the key as serialize writes it; None where len(k) raises TypeError
SerializedKey(k) ==
    IF ~k.int THEN Some(k.b)
    ELSE IF 0 <= k.b[1] /\ k.b[1] <= 255 THEN Some(k.b)
    ELSE None

\* PSBTMap.serialize(): [ok, ret]
PSBTMap_serialize(m) ==
    IF \E i \in 1..Len(m) : SerializedKey(m[i][1]) = None
    THEN [ok |-> FALSE, ret |-> <<>>]
    ELSE [ok |-> TRUE,
          ret |-> Concat([i \in 1..Len(m) |->
                      LET k == Val(SerializedKey(m[i][1]))
                      IN  ser_compact_size(Len(k)) \o k
                          \o ser_compact_size(Len(m[i][2])) \o m[i][2]])
                  \o <<0>>]

\* a map holds at most MaxEntries pairs
MaxEntries == 2
KeyInputs ==
    {IntKey(0), IntKey(1), IntKey(255), IntKey(256),
     BytesKey(<<>>), BytesKey(<<1>>), BytesKey(<<0, 1>>), BytesKey(<<1, 0, 0>>)}
ValueInputs == {<<>>, <<1, 0>>}
\* dicts: the keys of a map are distinct
MapInputs ==
    {m \in UNION {[1..n -> KeyInputs \X ValueInputs] : n \in 0..MaxEntries} :
        \A i, j \in 1..Len(m) : i # j => m[i][1] # m[j][1]}
\* bytes that follow a serialized map in the stream
TrailingInputs == {<<>>, <<0>>, <<1, 1>>}

NoResult == [ok |-> TRUE, map |-> <<>>, f |-> <<>>]
\* joined is the map whose serialization was put after map's entries, in
\* place of the terminator
NoPsbt ==
    [pc |-> "idle", map |-> <<>>, joined |-> <<>>, data |-> <<>>,
     trailing |-> <<>>, res |-> NoResult]

(***************************************************************************)
(* binana.py.  data is what get_binana_info returns: a function from the   *)
(* keys <<year, number, revision>> to the definitions; a definition says   *)
(* whether it has a "deployment" entry, and its "scriptverify" and         *)
(* "scriptverify_discourage" entries.  The deployment of key k is named by *)
(* k.  Of the header text the model keeps the lines of INQ_DEPLOYMENTS and *)
(* of INQ_VERIFY_FLAGS, of the JSON text its "script_flags" list and the   *)
(* keys of "deployments"; a file is None when it does not exist, else      *)
(* Some(its text).                                                         *)
(***************************************************************************)
\* script_verify_bit = 60
FirstScriptVerifyBit == 60

\* (y, n, r) tuples in Python's order
KeyLess(a, b) ==
    \/ a[1] < b[1]
    \/ a[1] = b[1] /\ a[2] < b[2]
    \/ a[1] = b[1] /\ a[2] = b[2] /\ a[3] < b[3]

\* sorted(data.keys())
RECURSIVE SortedKeys(_)
SortedKeys(keys) ==
    IF keys = {} THEN <<>>
    ELSE LET least == CHOOSE k \in keys : \A o \in keys \ {k} : KeyLess(k, o)
         IN  <<least>> \o SortedKeys(keys \ {least})

NoOutput == [deployments |-> <<>>, verify_flags |-> <<>>, script_flags |-> <<>>]

\* the loop of gen_binana_h, lines 54-126, over the keys still to do
RECURSIVE gen_loop(_, _, _, _)
gen_loop(data, keys, script_verify_bit, out) ==
    IF keys = <<>> THEN out
    ELSE LET k == Head(keys)
             b == data[k]
             verify == b.scriptverify
             discourage == b.scriptverify /\ b.scriptverify_discourage
             verify_flag == IF verify
                            THEN <<[name |-> <<"SCRIPT_VERIFY", k>>,
                                    bit |-> script_verify_bit]>>
                            ELSE <<>>
             bit1 == IF verify THEN script_verify_bit - 1 ELSE script_verify_bit
             discourage_flag == IF discourage
                                THEN <<[name |-> <<"SCRIPT_VERIFY_DISCOURAGE", k>>,
                                        bit |-> bit1]>>
                                ELSE <<>>
             bit2 == IF discourage THEN bit1 - 1 ELSE bit1
         IN  IF ~b.deployment THEN gen_loop(data, Tail(keys), script_verify_bit, out)
             ELSE gen_loop(data, Tail(keys), bit2,
                      [deployments |-> Append(out.deployments, k),
                       verify_flags |-> out.verify_flags \o verify_flag \o discourage_flag,
                       script_flags |-> IF verify THEN Append(out.script_flags, k)
                                        ELSE out.script_flags])

\* gen_binana_h(data, header, depjson): what it writes to header and to depjson
gen_binana_h(data) ==
    LET out == gen_loop(data, SortedKeys(DOMAIN data), FirstScriptVerifyBit, NoOutput)
    IN  [header |-> [deployments |-> out.deployments, verify_flags |-> out.verify_flags],
         depjson |-> [script_flags |-> out.script_flags,
                      deployments |-> {out.deployments[i] : i \in 1..Len(out.deployments)}]]

\* a writer that opens the file whatever it holds
WritesAlways(old, data) == TRUE

\* ConditionalWriter, lines 22-25: the file is written unless it exists
\* and holds data
Writes(old, data) == ~(old # None /\ data = Val(old))

\* ConditionalWriter(filename) around a body that produced data:
\* [file |-> the file afterwards, opened |-> whether it was opened for writing]
ConditionalWriter(old, data) ==
    IF Writes(old, data) THEN [file |-> Some(data), opened |-> TRUE]
    ELSE [file |-> old, opened |-> FALSE]

\* the definitions of the first count keys, of one kind or of mixed kinds
MaxDefinitions == 32
KeyOf(i) == <<2024 + i \div 16, 1 + (i % 16) \div 4, i % 4>>
Definition(deployment, scriptverify, scriptverify_discourage) ==
    [deployment |-> deployment, scriptverify |-> scriptverify,
     scriptverify_discourage |-> scriptverify_discourage]
KindInputs == {"both", "verify", "mixed", "sparse"}
DefinitionOf(kind, i) ==
    IF kind = "both" THEN Definition(TRUE, TRUE, TRUE)
    ELSE IF kind = "verify" THEN Definition(TRUE, TRUE, FALSE)
    ELSE IF kind = "mixed" THEN Definition(i % 5 # 4, i % 2 = 0, i % 3 # 0)
    ELSE Definition(i % 2 = 0, i % 3 = 0, i % 4 = 0)
ManyDefinitions(kind, count) ==
    [k \in {KeyOf(i) : i \in 0..(count - 1)} |->
        DefinitionOf(kind, CHOOSE i \in 0..(count - 1) : KeyOf(i) = k)]

\* definitions under some of two keys
DefinitionInputs == {Definition(TRUE, TRUE, TRUE), Definition(TRUE, FALSE, FALSE)}
FewKeys == {<<2025, 1, 0>>, <<2024, 2, 1>>}
FewDefinitions == UNION {[keys -> DefinitionInputs] : keys \in SUBSET FewKeys}

FileNames == {"header", "deploymentjson"}
\* the text gen_binana_h writes to the file, from the definitions data
TextOf(name, data) ==
    IF name = "header" THEN gen_binana_h(data).header ELSE gen_binana_h(data).depjson

\* binana.py at rest: no definitions, no files; gen is what gen_binana_h
\* last wrote, opened which files the last run of main opened for writing
NoBinana ==
    [pc |-> "idle", data |-> <<>>,
     files |-> [name \in FileNames |-> None],
     opened |-> [name \in FileNames |-> FALSE],
     gen |-> gen_binana_h(<<>>)]

(***************************************************************************)
(* P2PNode (p2p_notfound_perf.py).  An inventory item CInv(t=1, h=h) is    *)
(* the number h; a peer is its notfound_queue and the keys of its getdata  *)
(* dict, with the items of every getdata it was handed (requested) and the *)
(* notfound messages it has sent, in order.                                *)
(***************************************************************************)
\* the number of items of a notfound message
NotFoundBatch == 100

\* the queue flushed only above a full batch
QueueFullStrict(notfound_queue) == Len(notfound_queue) > NotFoundBatch

\* while len(self.notfound_queue) >= 100
QueueFull(notfound_queue) == Len(notfound_queue) >= NotFoundBatch

\* the while loop of on_getdata: [notfound_queue, sent]
RECURSIVE send_notfound(_, _)
send_notfound(notfound_queue, sent) ==
    IF QueueFull(notfound_queue)
    THEN send_notfound(SubSeq(notfound_queue, NotFoundBatch + 1, Len(notfound_queue)),
                       Append(sent, SubSeq(notfound_queue, 1, NotFoundBatch)))
    ELSE [notfound_queue |-> notfound_queue, sent |-> sent]

\* P2PNode.on_getdata(msg) with msg.inv = inv
on_getdata(self, inv) ==
    LET flushed == send_notfound(self.notfound_queue \o inv, self.sent)
    IN  [self EXCEPT !.notfound_queue = flushed.notfound_queue,
                     !.getdata = @ \cup {inv[i] : i \in 1..Len(inv)},
                     !.sent = flushed.sent,
                     !.requested = @ \o inv]

\* the peer is handed at most MaxGetdata getdata messages
MaxGetdata == 3
\* the items start, start + 1, ... of one getdata
InvRun(start, count) == [i \in 1..count |-> start + i - 1]
InvInputs == {InvRun(start, count) : start \in {0, 1000}, count \in {0, 1, 99, 100, 250}}

\* the notfound test before its peer has connected
NoNode ==
    [pc |-> "idle", notfound_queue |-> <<>>, getdata |-> {}, sent |-> <<>>,
     requested |-> <<>>, msgs |-> 0]

(***************************************************************************)
(* State                                                                   *)
(***************************************************************************)
VARIABLES
    musig,      \* the MuSig aggregate
    session,    \* the MuSig2 object
    last,       \* the last call made on the session: its name and outcome
    signed,     \* history: [on, log], log the <<i, secret pair, message>> of
                \* every signature calc_partial stored while on
    run,        \* an honest run: its position, and what calc_sig returned
    peer,       \* the other party's MuSig2 object and its last call
    rev,        \* two RevocableSecret objects and the last call made on them
    miner,      \* a run of the signet miner's do_generate, and the chain tip
    vb,         \* a run of the version-bits test and the chains of its three nodes
    psbt,       \* a PSBTMap, its serialization and what deserialize made of it
    binana,     \* the definitions, and the files written by binana.py's main
    node        \* a P2PNode peer of the notfound test and what it has sent

vars == <<musig, session, last, signed, run, peer, rev, miner, vb, psbt, binana, node>>

\* the programs of the other three variables at rest
ToolsIdle == psbt = NoPsbt /\ binana = NoBinana /\ node = NoNode

Call(op, res) == [op |-> op, ok |-> res.ok]
Fresh == [op |-> "new", ok |-> TRUE]
NoHistory == [on |-> FALSE, log |-> {}]
NoRun == [pc |-> "free", k |-> 0, sig |-> None]
NoPeer == [s |-> None, last |-> Fresh]

(***************************************************************************)
(* One signing session driven by arbitrary calls                           *)
(***************************************************************************)
Init ==
    /\ \E keys \in SessionKeyLists : musig = MuSigNew(keys) /\ musig.ok
    /\ \E tweak \in SessionTweaks : session = NewSession(musig, None, tweak)
    /\ last = Fresh
    /\ signed = NoHistory
    /\ run = NoRun
    /\ peer = NoPeer
    /\ rev = NoRev
    /\ miner = NoMiner
    /\ vb = NoVb /\ ToolsIdle

Signers == 1..Len(musig.keys)

SetSecret(i, r1, r2) ==
    LET res == set_secret(musig, session, i, r1, r2)
    IN  /\ session' = res.s
        /\ last' = Call("set_secret", res)
        /\ UNCHANGED <<musig, signed, run, peer, rev, miner, vb, psbt, binana, node>>

SetNonce(i, r1g, r2g) ==
    LET res == set_nonce(musig, session, i, r1g, r2g)
    IN  /\ session' = res.s
        /\ last' = Call("set_nonce", res)
        /\ UNCHANGED <<musig, signed, run, peer, rev, miner, vb, psbt, binana, node>>

SetMsg(msg) ==
    LET res == set_msg(musig, session, msg)
    IN  /\ session' = res.s
        /\ last' = Call("set_msg", res)
        /\ UNCHANGED <<musig, signed, run, peer, rev, miner, vb, psbt, binana, node>>

CalcBR ==
    LET res == calc_b_r(musig, session)
    IN  /\ session' = res.s
        /\ last' = Call("calc_b_r", res)
        /\ UNCHANGED <<musig, signed, run, peer, rev, miner, vb, psbt, binana, node>>

CalcPartial(i) ==
    LET res == calc_partial(musig, session, i)
    IN  /\ session' = res.s
        /\ last' = Call("calc_partial", res)
        /\ signed' = IF signed.on /\ res.ok /\ res.s.partial[i] # None
                     THEN [signed EXCEPT !.log = @ \cup
                              {<<i, session.secretpairs[i], session.msg>>}]
                     ELSE signed
        /\ UNCHANGED <<musig, run, peer, rev, miner, vb, psbt, binana, node>>

SetPartial(i, partial) ==
    LET res == set_partial(musig, session, i, partial)
    IN  /\ session' = res.s
        /\ last' = Call("set_partial", res)
        /\ UNCHANGED <<musig, signed, run, peer, rev, miner, vb, psbt, binana, node>>

CalcSig ==
    LET res == calc_sig(musig, session)
    IN  /\ session' = res.s
        /\ last' = Call("calc_sig", res)
        /\ UNCHANGED <<musig, signed, run, peer, rev, miner, vb, psbt, binana, node>>

Next ==
    \/ \E i \in Signers, rr \in SecretPairInputs : SetSecret(i, rr[1], rr[2])
    \/ \E i \in Signers, pp \in NoncePairInputs : SetNonce(i, pp[1], pp[2])
    \/ \E msg \in Msgs : SetMsg(msg)
    \/ CalcBR
    \/ \E i \in Signers : CalcPartial(i)
    \/ \E i \in Signers, partial \in PartialInputs : SetPartial(i, partial)
    \/ CalcSig

Spec == Init /\ [][Next]_vars

(***************************************************************************)
(* The session whose partial signatures all come from calc_partial: the    *)
(* same calls without set_partial                                          *)
(***************************************************************************)
NextOwn ==
    \/ \E i \in Signers, rr \in SecretPairInputs : SetSecret(i, rr[1], rr[2])
    \/ \E i \in Signers, pp \in NoncePairInputs : SetNonce(i, pp[1], pp[2])
    \/ \E msg \in Msgs : SetMsg(msg)
    \/ CalcBR
    \/ \E i \in Signers : CalcPartial(i)
    \/ CalcSig

SpecOwn == Init /\ [][NextOwn]_vars

(***************************************************************************)
(* The same session with the history of stored signatures kept             *)
(***************************************************************************)
InitReuse ==
    /\ musig = MuSigNew(<<PrivKey(1)>>)
    /\ session = NewSession(musig, None, None)
    /\ last = Fresh
    /\ signed = [on |-> TRUE, log |-> {}]
    /\ run = NoRun
    /\ peer = NoPeer
    /\ rev = NoRev
    /\ miner = NoMiner
    /\ vb = NoVb /\ ToolsIdle

SpecReuse == InitReuse /\ [][Next]_vars

(***************************************************************************)
(* Key aggregation alone: MuSig(keys) for every key list                   *)
(***************************************************************************)
\* every valid private key, every public point other than infinity, and the
\* public keys no aggregate can be built from
BadPoints == {Infinity, InvalidPoint}
AggKeys ==
    {PrivKey(x) : x \in Points} \cup {PubKey(pt) : pt \in Points \cup BadPoints}
AggKeyLists == UNION {[1..n -> AggKeys] : n \in 1..MaxSigners}

InitAgg ==
    /\ musig = [ok |-> FALSE, keys |-> <<>>]
    /\ session = None
    /\ last = Fresh
    /\ signed = NoHistory
    /\ run = NoRun
    /\ peer = NoPeer
    /\ rev = NoRev
    /\ miner = NoMiner
    /\ vb = NoVb /\ ToolsIdle

\* the constructor runs once, on the object being created
Construct(keys) ==
    /\ last = Fresh
    /\ musig' = MuSigNew(keys)
    /\ last' = [op |-> "MuSig", ok |-> musig'.ok]
    /\ UNCHANGED <<session, signed, run, peer, rev, miner, vb, psbt, binana, node>>

NextAgg == \E keys \in AggKeyLists : Construct(keys)

SpecAgg == InitAgg /\ [][NextAgg]_vars

(***************************************************************************)
(* The honest run: every signer holds its private key; set_secret for each *)
(* signer, set_msg, calc_b_r, calc_partial for each signer, calc_sig.      *)
(***************************************************************************)
HonestScalars == 1..MaxScalar
HonestKeyLists == UNION {[1..n -> {PrivKey(x) : x \in HonestScalars}] : n \in 1..MaxSigners}
HonestTweaks == {None} \cup (BOOLEAN \X HonestScalars)

InitHonest ==
    /\ \E keys \in HonestKeyLists : musig = MuSigNew(keys) /\ musig.ok
    /\ \E tweak \in HonestTweaks : session = NewSession(musig, None, tweak)
    /\ last = Fresh
    /\ signed = NoHistory
    /\ run = [pc |-> "set_secret", k |-> 1, sig |-> None]
    /\ peer = NoPeer
    /\ rev = NoRev
    /\ miner = NoMiner
    /\ vb = NoVb /\ ToolsIdle

\* the position after a call: "raised" when it raised, else the next step
After(res, op, pc, k) ==
    IF res.ok THEN [pc |-> pc, k |-> k, sig |-> res.ret]
    ELSE [pc |-> "raised", k |-> run.k, sig |-> None]

HonestSetSecret(r1, r2) ==
    /\ run.pc = "set_secret"
    /\ LET res == set_secret(musig, session, run.k, r1, r2)
       IN  /\ session' = res.s
           /\ last' = Call("set_secret", res)
           /\ run' = IF run.k < Len(musig.keys)
                     THEN After(res, "set_secret", "set_secret", run.k + 1)
                     ELSE After(res, "set_secret", "set_msg", 0)
    /\ UNCHANGED <<musig, signed, peer, rev, miner, vb, psbt, binana, node>>

HonestSetMsg(msg) ==
    /\ run.pc = "set_msg"
    /\ LET res == set_msg(musig, session, msg)
       IN  /\ session' = res.s
           /\ last' = Call("set_msg", res)
           /\ run' = After(res, "set_msg", "calc_b_r", 0)
    /\ UNCHANGED <<musig, signed, peer, rev, miner, vb, psbt, binana, node>>

HonestCalcBR ==
    /\ run.pc = "calc_b_r"
    /\ LET res == calc_b_r(musig, session)
       IN  /\ session' = res.s
           /\ last' = Call("calc_b_r", res)
           /\ run' = After(res, "calc_b_r", "calc_partial", 1)
    /\ UNCHANGED <<musig, signed, peer, rev, miner, vb, psbt, binana, node>>

HonestCalcPartial ==
    /\ run.pc = "calc_partial"
    /\ LET res == calc_partial(musig, session, run.k)
       IN  /\ session' = res.s
           /\ last' = Call("calc_partial", res)
           /\ run' = IF run.k < Len(musig.keys)
                     THEN After(res, "calc_partial", "calc_partial", run.k + 1)
                     ELSE After(res, "calc_partial", "calc_sig", 0)
    /\ UNCHANGED <<musig, signed, peer, rev, miner, vb, psbt, binana, node>>

HonestCalcSig ==
    /\ run.pc = "calc_sig"
    /\ LET res == calc_sig(musig, session)
       IN  /\ session' = res.s
           /\ last' = Call("calc_sig", res)
           /\ run' = After(res, "calc_sig", "done", 0)
    /\ UNCHANGED <<musig, signed, peer, rev, miner, vb, psbt, binana, node>>

NextHonest ==
    \/ \E r1, r2 \in HonestScalars : HonestSetSecret(r1, r2)
    \/ \E msg \in Msgs : HonestSetMsg(msg)
    \/ HonestCalcBR
    \/ HonestCalcPartial
    \/ HonestCalcSig

SpecHonest == InitHonest /\ [][NextHonest]_vars

(***************************************************************************)
(* Two parties signing under one aggregate of two keys.  Party 1 holds     *)
(* session and owns signer 1, party 2 holds peer.s and owns signer 2.  A   *)
(* party enters its own nonces with set_secret and the public nonces of    *)
(* the other party's current secrets with set_nonce.                       *)
(***************************************************************************)
PairKeyLists == [1..2 -> {PrivKey(x) : x \in 1..2}]

InitPair ==
    /\ \E keys \in PairKeyLists : musig = MuSigNew(keys) /\ musig.ok
    /\ session = NewSession(musig, None, None)
    /\ last = Fresh
    /\ signed = NoHistory
    /\ run = NoRun
    /\ peer = [s |-> NewSession(musig, None, None), last |-> Fresh]
    /\ rev = NoRev
    /\ miner = NoMiner
    /\ vb = NoVb /\ ToolsIdle

\* the session of party q
Party(q) == IF q = 1 THEN session ELSE peer.s

\* party q's session and last call become res.s and the call's record
PairUpdate(q, op, res) ==
    /\ IF q = 1
       THEN session' = res.s /\ last' = Call(op, res) /\ UNCHANGED peer
       ELSE peer' = [s |-> res.s, last |-> Call(op, res)] /\ UNCHANGED <<session, last>>
    /\ UNCHANGED <<musig, signed, run, rev, miner, vb, psbt, binana, node>>

PairSetSecret(q, r1, r2) ==
    PairUpdate(q, "set_secret", set_secret(musig, Party(q), q, r1, r2))

\* party q receives the public nonces of the other party's secrets
PairSetNonce(q) ==
    LET other == 3 - q
        rr == Party(other).secretpairs[other]
    IN  /\ rr # None
        /\ ValidSecret(rr[1]) /\ ValidSecret(rr[2])
        /\ PairUpdate(q, "set_nonce",
               set_nonce(musig, Party(q), other, PubOf(rr[1]), PubOf(rr[2])))

PairSetMsg(q, msg) ==
    PairUpdate(q, "set_msg", set_msg(musig, Party(q), msg))

PairCalcBR(q) ==
    PairUpdate(q, "calc_b_r", calc_b_r(musig, Party(q)))

NextPair ==
    \/ \E q \in 1..2, rr \in ValidPairInputs : PairSetSecret(q, rr[1], rr[2])
    \/ \E q \in 1..2 : PairSetNonce(q)
    \/ \E q \in 1..2, msg \in Msgs : PairSetMsg(q, msg)
    \/ \E q \in 1..2 : PairCalcBR(q)

SpecPair == InitPair /\ [][NextPair]_vars

(***************************************************************************)
(* RevocableSecret objects a and b under arbitrary calls                   *)
(***************************************************************************)
MuSigIdle ==
    /\ musig = [ok |-> FALSE, keys |-> <<>>]
    /\ session = None
    /\ last = Fresh
    /\ signed = NoHistory
    /\ run = NoRun
    /\ peer = NoPeer

InitRev == MuSigIdle /\ rev = NoRev /\ miner = NoMiner /\ vb = NoVb /\ ToolsIdle

\* which \in {"a", "b"}: the variable the constructed object is bound to
RevNew(which, seed, ceiling) ==
    LET res == RevocableSecret(seed, ceiling)
        call == [op |-> "new", ok |-> res.ok, ret |-> None, self |-> res.ret, level |-> 0]
    IN  /\ rev' = IF res.ok THEN [rev EXCEPT ![which] = res.ret, !.call = call]
                  ELSE [rev EXCEPT !.call = call]
        /\ UNCHANGED <<musig, session, last, signed, run, peer, miner, vb, psbt, binana, node>>

RevGet(which, level) ==
    /\ rev[which] # None
    /\ LET res == get(rev[which], level)
       IN  rev' = [rev EXCEPT !.call = [op |-> "get", ok |-> res.ok, ret |-> res.ret,
                                        self |-> rev[which], level |-> level]]
    /\ UNCHANGED <<musig, session, last, signed, run, peer, miner, vb, psbt, binana, node>>

RevEq ==
    /\ rev.a # None /\ rev.b # None
    /\ LET res == eq(rev.a, rev.b)
       IN  rev' = [rev EXCEPT !.call = [op |-> "eq", ok |-> res.ok,
                                        ret |-> IF res.ok THEN Some(res.ret) ELSE None,
                                        self |-> rev.a, level |-> 0]]
    /\ UNCHANGED <<musig, session, last, signed, run, peer, miner, vb, psbt, binana, node>>

NextRev ==
    \/ \E which \in {"a", "b"}, seed \in SeedInputs, ceiling \in CeilingInputs :
          RevNew(which, seed, ceiling)
    \/ \E which \in {"a", "b"}, level \in LevelInputs : RevGet(which, level)
    \/ RevEq

SpecRev == InitRev /\ [][NextRev]_vars

(***************************************************************************)
(* RevocableSecret2 objects: rev.a is the object, rev.call the last call   *)
(* made on it, level the pair <<i, j>> of a get.                           *)
(***************************************************************************)
Rev2New(i, j, seed1, seed2) ==
    LET res == RevocableSecret2(i, j, seed1, seed2)
        call == [op |-> "new2", ok |-> res.ok, ret |-> None, self |-> res.ret, level |-> 0]
    IN  /\ rev' = IF res.ok THEN [rev EXCEPT !.a = res.ret, !.call = call]
                  ELSE [rev EXCEPT !.call = call]
        /\ UNCHANGED <<musig, session, last, signed, run, peer, miner, vb, psbt, binana, node>>

Rev2Get(i, j) ==
    /\ rev.a # None
    /\ LET res == get2(rev.a, i, j)
       IN  rev' = [rev EXCEPT !.call = [op |-> "get2", ok |-> res.ok, ret |-> res.ret,
                                        self |-> rev.a, level |-> <<i, j>>]]
    /\ UNCHANGED <<musig, session, last, signed, run, peer, miner, vb, psbt, binana, node>>

NextRev2 ==
    \/ \E i, j \in Ceiling2Inputs, seed1, seed2 \in SeedInputs : Rev2New(i, j, seed1, seed2)
    \/ \E i \in LevelInputs, j \in SubLevelInputs : Rev2Get(i, j)

SpecRev2 == InitRev /\ [][NextRev2]_vars

(***************************************************************************)
(* main, then do_generate: one action for its start, one for each loop     *)
(* iteration, one for leaving the loop; the other miners extend the chain  *)
(* meanwhile.  iters, attempts and submits count the iterations begun, the *)
(* PSBTs handed to walletprocesspsbt and the submitblock calls; it records *)
(* the last iteration, cli the bitcoin-cli commands run so far,            *)
(* spk_lookups the getaddressinfo calls.                                   *)
(***************************************************************************)
InitGen ==
    /\ MuSigIdle
    /\ rev = NoRev
    /\ vb = NoVb /\ ToolsIdle
    /\ \E blocks \in 0..1 : miner = [NoMiner EXCEPT !.tip = blocks]

\* main, lines 396-416, up to the call of args.fn
Main(cmd, address, descriptor) ==
    /\ miner.pc = "idle"
    /\ LET parsed == [miner EXCEPT !.cmd = cmd,
                                   !.argv = [address |-> address, descriptor |-> descriptor],
                                   !.args.address = IF HasPayoutArgs(cmd) THEN address ELSE None,
                                   !.args.descriptor = IF HasPayoutArgs(cmd) THEN descriptor ELSE None]
       IN  miner' = IF HasPayoutArgs(cmd) /\ BadPayoutArgs(address, descriptor)
                    THEN [parsed EXCEPT !.pc = "returned", !.ret = Some(1)]
                    ELSE [parsed EXCEPT !.pc = "fn"]
    /\ UNCHANGED <<musig, session, last, signed, run, peer, rev, vb, psbt, binana, node>>

\* do_genpsbt: after the template is read, get_reward_spk is no name of the
\* module and raises NameError
DoGenpsbt(firstblock) ==
    /\ miner.pc = "fn" /\ miner.cmd = "genpsbt"
    /\ miner' = [miner EXCEPT !.pc = "raised",
                              !.cli = IF firstblock THEN @ \cup {"getblockchaininfo"} ELSE @]
    /\ UNCHANGED <<musig, session, last, signed, run, peer, rev, vb, psbt, binana, node>>

\* do_solvepsbt runs no bitcoin-cli command
DoSolvepsbt ==
    /\ miner.pc = "fn" /\ miner.cmd = "solvepsbt"
    /\ miner' = [miner EXCEPT !.pc = "returned", !.ret = None]
    /\ UNCHANGED <<musig, session, last, signed, run, peer, rev, vb, psbt, binana, node>>

\* lines 296-308: argument checks, getblockchaininfo, the counters
GenStart(N, secondary, target_mining_time, block_time, backdate) ==
    /\ miner.pc = "fn" /\ miner.cmd = "generate"
    /\ LET called == [miner EXCEPT !.N = N, !.secondary = secondary,
                                   !.target_mining_time = target_mining_time,
                                   !.block_time = block_time]
       IN  IF BadN(N) \/ BadTargetMiningTime(target_mining_time)
                    THEN miner' = [called EXCEPT !.pc = "returned", !.ret = Some(1)]
                    ELSE \E now \in ClockInputs, mediantime \in MedianTimeInputs :
                           miner' = [called EXCEPT !.pc = "loop",
                                        !.cli = @ \cup {"getblockchaininfo"},
                                        !.nextblock = miner.tip + 1, !.mined_blocks = 0,
                                        !.start = StartTimeOf(backdate, mediantime, now)]
    /\ UNCHANGED <<musig, session, last, signed, run, peer, rev, vb, psbt, binana, node>>

\* lines 315-362: one pass through the loop body; it.complete is the
\* "complete" entry of what walletprocesspsbt returned
GenIterate(outcome, tmpl) ==
    /\ miner.pc = "loop"
    /\ LoopCondition(miner.N, miner.mined_blocks)
    /\ miner.iters < MaxIters
    /\ LET block_time == SleepBlockTime(miner.block_time, miner.target_mining_time)
       IN  IF block_time = None
           THEN miner' = [miner EXCEPT !.pc = "raised"]
           ELSE
           LET start == NextStart(miner.start, Val(block_time))
               height == TemplateHeight(miner.nextblock, miner.tip)
               begun == [miner EXCEPT !.iters = @ + 1,
                                      !.start = start,
                                      !.cli = IF miner.nextblock = 1 THEN @
                                              ELSE @ \cup {"getblocktemplate"}]
               waited == [NoIteration EXCEPT !.height = height,
                                             !.expected = miner.nextblock,
                                             !.block_time = Val(block_time)]
               mined == [waited EXCEPT !.signed = TRUE,
                                        !.mintime = tmpl.mintime,
                                        !.nTime = generate_psbt_nTime(tmpl, Some(start))]
           IN  miner' =
                 IF ShouldWait(miner.secondary, height, miner.nextblock)
                 THEN [begun EXCEPT !.nextblock = height, !.it = waited]
                 ELSE LET paid == get_reward_addr_spk(miner.args, height)
                          signing == [begun EXCEPT !.nextblock = height + 1,
                                         !.args = paid.args,
                                         !.reward = [height |-> height, ret |-> paid.ret,
                                                     cli |-> paid.cli],
                                         !.spk_lookups = IF "getaddressinfo" \in paid.cli
                                                         THEN @ + 1 ELSE @,
                                         !.mined_blocks = @ + 1,
                                         !.attempts = @ + 1,
                                         !.cli = @ \cup paid.cli \cup {"walletprocesspsbt"}]
                      IN  IF SigningFailed(outcome)
                          THEN [signing EXCEPT !.pc = "returned", !.ret = Some(1),
                                               !.it = mined]
                          ELSE [signing EXCEPT !.submits = @ + 1,
                                    !.cli = @ \cup {"submitblock"},
                                    !.tip = IF outcome = "accepted" /\ height = miner.tip + 1
                                            THEN height ELSE @,
                                    !.it = [mined EXCEPT
                                               !.complete = outcome # "incomplete",
                                               !.submitted = TRUE]]
    /\ UNCHANGED <<musig, session, last, signed, run, peer, rev, vb, psbt, binana, node>>

\* the while condition is false: do_generate falls off its end
GenLoopExit ==
    /\ miner.pc = "loop"
    /\ ~LoopCondition(miner.N, miner.mined_blocks)
    /\ miner' = [miner EXCEPT !.pc = "returned", !.ret = None]
    /\ UNCHANGED <<musig, session, last, signed, run, peer, rev, vb, psbt, binana, node>>

\* another miner's block reaches the node
OtherMinerBlock ==
    /\ miner.pc = "loop"
    /\ miner.tip < MaxHeight
    /\ miner' = [miner EXCEPT !.tip = @ + 1]
    /\ UNCHANGED <<musig, session, last, signed, run, peer, rev, vb, psbt, binana, node>>

\* get_reward_address called with any height, for a ranged descriptor:
\* reward records the call, reward.cached whether the height was a key of
\* args.derived_addresses when it was made
MaxRewardHeight == 23
RewardHeights == 0..MaxRewardHeight

InitReward ==
    /\ MuSigIdle
    /\ rev = NoRev
    /\ vb = NoVb /\ ToolsIdle
    /\ miner = [NoMiner EXCEPT !.pc = "fn", !.cmd = "reward",
                               !.argv.descriptor = Some("ranged"),
                               !.args.descriptor = Some("ranged")]

RewardAddress(height) ==
    /\ miner.pc = "fn" /\ miner.cmd = "reward"
    /\ LET found == get_reward_address(miner.args, height)
       IN  miner' = [miner EXCEPT !.args = found.args,
                                  !.cli = @ \cup found.cli,
                                  !.reward = [height |-> height, ret |-> Some(found.ret),
                                              cli |-> found.cli]]
    /\ UNCHANGED <<musig, session, last, signed, run, peer, rev, vb, psbt, binana, node>>

NextReward == \E height \in RewardHeights : RewardAddress(height)

SpecReward == InitReward /\ [][NextReward]_vars

NextGen ==
    \/ \E cmd \in CmdInputs, address \in AddressInputs, descriptor \in DescriptorInputs :
          Main(cmd, address, descriptor)
    \/ \E firstblock \in BOOLEAN : DoGenpsbt(firstblock)
    \/ DoSolvepsbt
    \/ \E N \in NInputs, secondary \in BOOLEAN, t \in TargetMiningTimeInputs,
          block_time \in BlockTimeInputs, backdate \in BackdateInputs :
          GenStart(N, secondary, t, block_time, backdate)
    \/ \E outcome \in SigningOutcomes, tmpl \in TemplateInputs : GenIterate(outcome, tmpl)
    \/ GenLoopExit
    \/ OtherMinerBlock

SpecGen == InitGen /\ [][NextGen]_vars

(***************************************************************************)
(* A PSBTMap is made, serialized, and read back by deserialize, with bytes *)
(* after it in the stream; or the entries of a second map are put after    *)
(* its own before it is read back.                                         *)
(***************************************************************************)
InitPsbt ==
    /\ MuSigIdle
    /\ rev = NoRev
    /\ miner = NoMiner
    /\ vb = NoVb
    /\ psbt = NoPsbt /\ binana = NoBinana /\ node = NoNode

\* PSBTMap(map)
PsbtNew(map) ==
    /\ psbt.pc = "idle"
    /\ psbt' = [psbt EXCEPT !.pc = "made", !.map = map]
    /\ UNCHANGED <<musig, session, last, signed, run, peer, rev, miner, vb, binana, node>>

PsbtSerialize ==
    /\ psbt.pc = "made"
    /\ LET res == PSBTMap_serialize(psbt.map)
       IN  psbt' = IF res.ok THEN [psbt EXCEPT !.pc = "serialized", !.data = res.ret]
                   ELSE [psbt EXCEPT !.pc = "raised"]
    /\ UNCHANGED <<musig, session, last, signed, run, peer, rev, miner, vb, binana, node>>

\* a writer that puts the entries of two maps into one map of the stream
PsbtJoin(map) ==
    /\ psbt.pc = "serialized"
    /\ Len(psbt.map) >= 1 /\ Len(map) >= 1 /\ Len(psbt.map) + Len(map) <= MaxEntries
    /\ PSBTMap_serialize(map).ok
    /\ psbt' = [psbt EXCEPT !.pc = "joined", !.joined = map,
                            !.data = SubSeq(psbt.data, 1, Len(psbt.data) - 1)
                                     \o PSBTMap_serialize(map).ret]
    /\ UNCHANGED <<musig, session, last, signed, run, peer, rev, miner, vb, binana, node>>

\* PSBTMap().deserialize(stream)
PsbtDeserialize(trailing) ==
    /\ psbt.pc \in {"serialized", "joined"}
    /\ psbt' = [psbt EXCEPT !.pc = IF psbt.pc = "serialized" THEN "read" ELSE "readjoined",
                            !.trailing = trailing,
                            !.res = PSBTMap_deserialize(psbt.data \o trailing)]
    /\ UNCHANGED <<musig, session, last, signed, run, peer, rev, miner, vb, binana, node>>

NextPsbt ==
    \/ \E map \in MapInputs : PsbtNew(map)
    \/ PsbtSerialize
    \/ \E map \in {m \in MapInputs : Len(m) < MaxEntries} : PsbtJoin(map)
    \/ \E trailing \in TrailingInputs : PsbtDeserialize(trailing)

SpecPsbt == InitPsbt /\ [][NextPsbt]_vars

(***************************************************************************)
(* binana.py's main is run again and again, while the definitions and the  *)
(* two files are changed or removed in between.  pc is "ran" after a run,  *)
(* "ranagain" after a run that follows a run with nothing changed in       *)
(* between.                                                                *)
(***************************************************************************)
InitBinana ==
    /\ MuSigIdle
    /\ rev = NoRev
    /\ miner = NoMiner
    /\ vb = NoVb
    /\ psbt = NoPsbt /\ binana = NoBinana /\ node = NoNode

\* the definitions directory is edited
SetDefinitions(data) ==
    /\ data # binana.data
    /\ binana' = [binana EXCEPT !.pc = "changed", !.data = data]
    /\ UNCHANGED <<musig, session, last, signed, run, peer, rev, miner, vb, psbt, node>>

\* a file is removed
RemoveFile(name) ==
    /\ binana.files[name] # None
    /\ binana' = [binana EXCEPT !.pc = "changed", !.files[name] = None]
    /\ UNCHANGED <<musig, session, last, signed, run, peer, rev, miner, vb, psbt, node>>

\* a file is given the text of other definitions
EditFile(name, data) ==
    /\ binana.files[name] # Some(TextOf(name, data))
    /\ binana' = [binana EXCEPT !.pc = "changed", !.files[name] = Some(TextOf(name, data))]
    /\ UNCHANGED <<musig, session, last, signed, run, peer, rev, miner, vb, psbt, node>>

\* main, lines 148-151
RunMain ==
    LET written == [name \in FileNames |->
                       ConditionalWriter(binana.files[name], TextOf(name, binana.data))]
    IN  /\ binana' = [binana EXCEPT
                         !.pc = IF binana.pc \in {"ran", "ranagain"} THEN "ranagain" ELSE "ran",
                         !.files = [name \in FileNames |-> written[name].file],
                         !.opened = [name \in FileNames |-> written[name].opened],
                         !.gen = gen_binana_h(binana.data)]
        /\ UNCHANGED <<musig, session, last, signed, run, peer, rev, miner, vb, psbt, node>>

NextBinana ==
    \/ \E data \in FewDefinitions : SetDefinitions(data)
    \/ \E name \in FileNames : RemoveFile(name)
    \/ \E name \in FileNames, data \in FewDefinitions : EditFile(name, data)
    \/ RunMain

SpecBinana == InitBinana /\ [][NextBinana]_vars

(***************************************************************************)
(* A P2PNode peer is connected and handed getdata messages.                *)
(***************************************************************************)
InitNode ==
    /\ MuSigIdle
    /\ rev = NoRev
    /\ miner = NoMiner
    /\ vb = NoVb
    /\ psbt = NoPsbt /\ binana = NoBinana /\ node = NoNode

\* run_test: add_p2p_connection(P2PNode()), inbound.getdata = {},
\* inbound.notfound_queue = []
Connect ==
    /\ node.pc = "idle"
    /\ node' = [node EXCEPT !.pc = "connected", !.notfound_queue = <<>>, !.getdata = {}]
    /\ UNCHANGED <<musig, session, last, signed, run, peer, rev, miner, vb, psbt, binana>>

OnGetdata(inv) ==
    /\ node.pc = "connected"
    /\ node.msgs < MaxGetdata
    /\ node' = [on_getdata(node, inv) EXCEPT !.msgs = @ + 1]
    /\ UNCHANGED <<musig, session, last, signed, run, peer, rev, miner, vb, psbt, binana>>

NextNode ==
    \/ Connect
    \/ \E inv \in InvInputs : OnGetdata(inv)

SpecNode == InitNode /\ [][NextNode]_vars

(***************************************************************************)
(* gen_binana_h applied to the definitions of up to MaxDefinitions keys.   *)
(***************************************************************************)
InitBits ==
    /\ MuSigIdle
    /\ rev = NoRev
    /\ miner = NoMiner
    /\ vb = NoVb
    /\ psbt = NoPsbt /\ node = NoNode
    /\ \E kind \in KindInputs, count \in 0..MaxDefinitions :
          binana = [NoBinana EXCEPT !.data = ManyDefinitions(kind, count)]

GenBinanaH ==
    /\ binana.pc = "idle"
    /\ binana' = [binana EXCEPT !.pc = "generated", !.gen = gen_binana_h(binana.data)]
    /\ UNCHANGED <<musig, session, last, signed, run, peer, rev, miner, vb, psbt, node>>

NextBits == GenBinanaH

SpecBits == InitBits /\ [][NextBits]_vars

(***************************************************************************)
(* run_test of the version-bits test, one action for each kind of          *)
(* statement.                                                              *)
(***************************************************************************)
InitVb ==
    /\ MuSigIdle
    /\ rev = NoRev
    /\ miner = NoMiner
    /\ vb = NoVb /\ ToolsIdle

\* the statement to run, when the test is running and it is of kind op
VbAt(op) ==
    /\ ~vb.failed /\ ~vb.finished
    /\ Script[vb.pc].op = op

\* the test after an assertion
VbAsserted(holds) ==
    IF holds THEN [vb EXCEPT !.pc = @ + 1] ELSE [vb EXCEPT !.failed = TRUE]

\* generate_blocks(who, num): the next block of nodes[who].generate(num),
\* relayed to the other nodes
GenerateBlock ==
    /\ VbAt("generate")
    /\ LET who == Script[vb.pc].a
           left == IF vb.left = 0 THEN Script[vb.pc].b ELSE vb.left
           c == vb.chain[who]
           grown == Append(c, Block(NodeSignals(who, c), vb.mocktime))
       IN  vb' = [vb EXCEPT !.chain = [n \in VbNodes |->
                                         IF n = who THEN grown
                                         ELSE Adopt(n, vb.chain[n], grown)],
                            !.left = left - 1,
                            !.pc = IF left = 1 THEN @ + 1 ELSE @]
    /\ UNCHANGED <<musig, session, last, signed, run, peer, rev, miner, psbt, binana, node>>

\* bump_mocktime(t)
BumpMocktime ==
    /\ VbAt("mocktime")
    /\ vb' = [vb EXCEPT !.mocktime = Script[vb.pc].a, !.pc = @ + 1]
    /\ UNCHANGED <<musig, session, last, signed, run, peer, rev, miner, psbt, binana, node>>

\* sync_all(nodes): returns when the nodes have the same tip, fails otherwise
SyncAll ==
    /\ VbAt("sync")
    /\ vb' = VbAsserted(\A m, n \in Script[vb.pc].a : vb.chain[m] = vb.chain[n])
    /\ UNCHANGED <<musig, session, last, signed, run, peer, rev, miner, psbt, binana, node>>

\* assert_heights(height1, height2, height3)
AssertHeights ==
    /\ VbAt("heights")
    /\ vb' = VbAsserted(\A n \in VbNodes : Len(vb.chain[n]) = Script[vb.pc].a[n + 1])
    /\ UNCHANGED <<musig, session, last, signed, run, peer, rev, miner, psbt, binana, node>>

\* assert_state_is(state), and the assert_equal on node 0's status alone
AssertStateIs ==
    /\ VbAt("state")
    /\ vb' = VbAsserted(\A n \in Script[vb.pc].a :
                            get_bip9_status(vb.chain[n]) = Script[vb.pc].b)
    /\ UNCHANGED <<musig, session, last, signed, run, peer, rev, miner, psbt, binana, node>>

\* flag_day_tip = self.nodes[n].getbestblockhash(): a block is known by
\* the chain that ends in it
RecordFlagDayTip ==
    /\ VbAt("tip")
    /\ vb' = [vb EXCEPT !.flag_day_tip = vb.chain[Script[vb.pc].a], !.pc = @ + 1]
    /\ UNCHANGED <<musig, session, last, signed, run, peer, rev, miner, psbt, binana, node>>

\* assert_equal(self.nodes[1].getbestblockhash(), flag_day_tip)
AssertLeftBehind ==
    /\ VbAt("behind")
    /\ vb' = VbAsserted(vb.chain[Script[vb.pc].a] = vb.flag_day_tip)
    /\ UNCHANGED <<musig, session, last, signed, run, peer, rev, miner, psbt, binana, node>>

\* node.invalidateblock(flag_day_tip) on every node
InvalidateBlock ==
    /\ VbAt("invalidate")
    /\ LET f == vb.flag_day_tip
           Has(c) == Len(c) >= Len(f) /\ SubSeq(c, 1, Len(f)) = f
       IN  vb' = [vb EXCEPT !.chain = [n \in VbNodes |->
                                         IF Has(vb.chain[n])
                                         THEN SubSeq(vb.chain[n], 1, Len(f) - 1)
                                         ELSE vb.chain[n]],
                            !.pc = @ + 1]
    /\ UNCHANGED <<musig, session, last, signed, run, peer, rev, miner, psbt, binana, node>>

\* the five assert_equal on node 1's statistics
AssertStatistics ==
    /\ VbAt("stats")
    /\ vb' = VbAsserted(Statistics(vb.chain[Script[vb.pc].a]) =
                            [period |-> 144, threshold |-> 108, elapsed |-> 0,
                             count |-> 0, possible |-> TRUE])
    /\ UNCHANGED <<musig, session, last, signed, run, peer, rev, miner, psbt, binana, node>>

\* self.log.info("Finished"); return
Finished ==
    /\ VbAt("finished")
    /\ vb' = [vb EXCEPT !.finished = TRUE]
    /\ UNCHANGED <<musig, session, last, signed, run, peer, rev, miner, psbt, binana, node>>

NextVb ==
    \/ GenerateBlock
    \/ BumpMocktime
    \/ SyncAll
    \/ AssertHeights
    \/ AssertStateIs
    \/ RecordFlagDayTip
    \/ AssertLeftBehind
    \/ InvalidateBlock
    \/ AssertStatistics
    \/ Finished

SpecVb == InitVb /\ [][NextVb]_vars

\* BIP340 verification of (R_x, s) under the x-only key pkx:
\* s < n and s*G = lift_x(R_x) + e*lift_x(pkx)
SchnorrVerify(pkx, msg, sig) ==
    LET P == LiftX(pkx)
        R == LiftX(sig[1])
        e == Challenge(sig[1], pkx, msg)
    IN  /\ P # None /\ R # None
        /\ sig[2] < SECP256K1_ORDER
        /\ EcMul(<<<<1, sig[2]>>>>) = EcMul(<<<<Val(R), 1>>, <<Val(P), e>>>>)

(***************************************************************************)
(* Properties of the session under arbitrary calls                         *)
(***************************************************************************)
AllNone(f) == \A i \in DOMAIN f : f[i] = None
NoncesKnown == \A i \in Signers : session.noncepairs[i] # None
\* every nonce pair known, the message set, b and r computed
NoncesComplete ==
    /\ NoncesKnown
    /\ session.msg # None
    /\ session.b # None /\ session.r # None
ValidPair(rr) == ValidSecret(rr[1]) /\ ValidSecret(rr[2])

\* C1: after a call of set_nonce (directly or through set_secret) or of
\* set_msg, b, r and every partial-signature slot are None.
C1_SettingResetsDerived ==
    (last.op \in {"set_nonce", "set_secret", "set_msg"} /\ last.ok)
        => (session.b = None /\ session.r = None /\ AllNone(session.partial))

\* C5: calc_partial(i) stores a partial signature only when every nonce pair
\* is known, the message is set and b and r have been computed; in any other
\* state it raises and leaves every partial slot as it was.
C5_PartialNeedsNoncesComplete ==
    /\ (last.op = "calc_partial" /\ last.ok) => NoncesComplete
    /\ ~NoncesComplete =>
          \A i \in Signers :
              LET res == calc_partial(musig, session, i)
              IN  ~res.ok /\ res.s.partial = session.partial

\* a state right after calc_partial stored a signature
C5_Witness ==
    /\ last.op = "calc_partial" /\ last.ok
    /\ \E i \in Signers : session.partial[i] # None

\* C6: calc_sig returns a signature only when every partial slot is filled;
\* with a slot unknown it raises and returns nothing.
C6_SigNeedsAllPartials ==
    /\ (last.op = "calc_sig" /\ last.ok) => AllPartials(musig, session)
    /\ ~AllPartials(musig, session) =>
          LET res == calc_sig(musig, session)
          IN  ~res.ok /\ res.ret = None

\* calc_sig has just raised on a session with one slot filled and one empty
C6_Witness ==
    /\ last.op = "calc_sig" /\ ~last.ok
    /\ \E i, j \in Signers : session.partial[i] = None /\ session.partial[j] # None

\* C9: calc_partial never records a signature computed from a secret nonce
\* scalar that is 0 or >= n.
C9_InvalidScalarNeverSigned ==
    \A i \in Signers :
        (session.secretpairs[i] # None /\ ~ValidPair(session.secretpairs[i]))
            => LET res == calc_partial(musig, session, i)
               IN  ~(res.ok /\ res.s.partial[i] # None)

\* the aggregate nonce calc_b_r would compute in this state is infinity
DegenerateNonce ==
    /\ NoncesKnown /\ session.msg # None
    /\ AggregateNonce(musig, session, BindingCoefficient(musig, session)) = Infinity

\* C10: when the sum of all R1_i plus b times the sum of all R2_i is the
\* point at infinity, calc_b_r raises and assigns no aggregate nonce; an r it
\* assigns is a compressed curve point.
C10_DegenerateNonceRejected ==
    /\ DegenerateNonce =>
          LET res == calc_b_r(musig, session)
          IN  ~res.ok /\ res.s.r = session.r
    /\ (last.op = "calc_b_r" /\ last.ok) =>
          (session.r # None /\ LiftX(session.r[2]) # None)

\* calc_b_r has just raised on the point at infinity
C10_Witness == last.op = "calc_b_r" /\ ~last.ok /\ DegenerateNonce

\* C2: no secret nonce pair entered with set_secret is used by calc_partial
\* for signatures over two different messages.
C2_NonceNeverReused ==
    \A u, v \in signed.log : (u[1] = v[1] /\ u[2] = v[2]) => u[3] = v[3]

\* C3: with no tweak, the honest run yields (R_x, s) with s < n and
\* s*G = lift_even_y(R_x) + e*P, whether the aggregate nonce has even or odd
\* y: once calc_b_r has published r, calc_partial does not raise, and the
\* signature calc_sig returns verifies under the aggregate key.
C3_HonestRunVerifies ==
    session.pubkeytweak = None =>
        /\ ~(run.pc = "raised" /\ last.op = "calc_partial")
        /\ run.pc = "done" => SchnorrVerify(XOnly(musig).ret, session.msg, run.sig)

\* C4: with a tweak (neg, t), the signature calc_sig returns after the honest
\* run verifies under the x-only key calc_pubkey returns.
C4_TweakedRunVerifies ==
    (session.pubkeytweak # None /\ run.pc = "done") =>
        SchnorrVerify(calc_pubkey(musig, session).ret[2], session.msg, run.sig)

\* C7: after MuSig construction the aggregate key has even y, it is the sum
\* of mul[i] * pubkey_i over the stored multipliers, and negated is true
\* exactly when the raw weighted sum had odd y, every stored multiplier then
\* being n minus the hashed one.
C7_AggregateEvenAndConsistent ==
    musig.ok =>
        LET hashed == HashedMul(musig.keys)
            raw == WeightedSum(musig.keys, hashed)
        IN  /\ HasEvenY(musig.pubkey) /\ XOnly(musig).ok
            /\ musig.pubkey = WeightedSum(musig.keys, musig.mul)
            /\ musig.negated = ~HasEvenY(raw)
            /\ musig.negated =>
                  \A i \in 1..Len(musig.keys) :
                      musig.mul[i] = SECP256K1_ORDER - hashed[i]

\* a two-key aggregate whose raw sum had odd y
C7_Witness == musig.ok /\ musig.negated /\ Len(musig.keys) = 2

\* the public nonce pair of a secret nonce pair
PubPair(rr) == <<PubOf(rr[1]), PubOf(rr[2])>>
\* each party holds the public nonces of the other's current secrets
SameTranscript ==
    /\ session.secretpairs[1] # None /\ peer.s.secretpairs[2] # None
    /\ peer.s.noncepairs[1] = PubPair(session.secretpairs[1])
    /\ session.noncepairs[2] = PubPair(peer.s.secretpairs[2])
    /\ session.msg = peer.s.msg
BothComputed ==
    /\ last.op = "calc_b_r" /\ last.ok
    /\ peer.last.op = "calc_b_r" /\ peer.last.ok

\* C8: two sessions over the same aggregate and message, each party having
\* entered its own nonces with set_secret and the other's with set_nonce,
\* compute the same b and the same r in calc_b_r, in whatever order the
\* nonce pairs were set.
C8_SameTranscriptSameNonce ==
    (BothComputed /\ SameTranscript) =>
        (session.b = peer.s.b /\ session.r = peer.s.r)

\* both parties have just computed b and r from the same transcript, with
\* nonce pairs whose two points differ
C8_Witness ==
    /\ BothComputed /\ SameTranscript
    /\ session.secretpairs[1][1] # session.secretpairs[1][2]
\* a public key of the list is no valid curve point, or is the point at infinity
HasBadPubKey(keys) ==
    \E i \in 1..Len(keys) : keys[i].pub /\ keys[i].v \in BadPoints

\* C11: constructing a MuSig aggregate from a key list with a public key
\* that is not a valid curve point, or is the point at infinity, raises, and
\* the object gets no aggregate key.
C11_BadPubKeyRejected ==
    (last.op = "MuSig" /\ HasBadPubKey(musig.keys))
        => (~musig.ok /\ "pubkey" \notin DOMAIN musig)

\* the constructor was given a valid key and the point at infinity, and raised
C11_Witness ==
    /\ last.op = "MuSig" /\ ~last.ok
    /\ Len(musig.keys) = 2
    /\ musig.keys[1] = PrivKey(1) /\ musig.keys[2] = PubKey(Infinity)

\* signer i's contribution is a point: it holds no private key
VerifyOnly(i) == ~musig.pts[i].int

\* C12: calc_partial(i) raises and changes nothing of the session when
\* signer i is verify-only, or when the session holds no secret nonce pair of
\* signer i (at most the public nonces given to set_nonce).
C12_OnlySignerSigns ==
    \A i \in Signers :
        (VerifyOnly(i) \/ session.secretpairs[i] = None)
            => LET res == calc_partial(musig, session, i)
               IN  ~res.ok /\ res.s = session

\* b and r are computed and signer 1 has signed; calc_partial has then
\* raised for signer 2, who is verify-only although the session holds a
\* secret nonce pair under its index
C12_Witness ==
    /\ last.op = "calc_partial" /\ ~last.ok
    /\ Len(musig.keys) = 2 /\ VerifyOnly(2)
    /\ session.secretpairs[2] # None
    /\ session.b # None /\ session.r # None /\ session.r[1] = 2
    /\ session.partial[1] # None

\* C13: once calc_sig has returned the final signature, every secretpairs
\* slot of the session is None.
C13_SecretsDiscardedAfterSig ==
    (last.op = "calc_sig" /\ last.ok)
        => \A i \in Signers : session.secretpairs[i] = None

(***************************************************************************)
(* Properties of RevocableSecret                                           *)
(***************************************************************************)
\* the objects the constructor has bound to a or b
RevObjects == {rev.a, rev.b} \ {None}
\* the levels 0 <= level < ceiling of an object, as far as the model goes
LevelsOf(self) == {l \in 0..MaxCeiling : l < self.ceiling}

\* C14: get(level) with 0 <= level < ceiling returns SHA256 applied
\* (ceiling - level) times to the seed; with level >= ceiling it raises.
C14_GetIteratesHash ==
    rev.call.op = "get" =>
        LET self == rev.call.self
            level == rev.call.level
        IN  /\ (0 <= level /\ level < self.ceiling) =>
                  (rev.call.ok /\ rev.call.ret = HashTimes(self.seed, self.ceiling - level))
            /\ level >= self.ceiling => ~rev.call.ok

\* C15: for levels l <= l2 below the ceiling, get(l) is SHA256 applied
\* (l2 - l) more times to get(l2).
C15_LowerFromHigher ==
    \A self \in RevObjects : \A l, l2 \in LevelsOf(self) :
        l <= l2 =>
            LET low == get(self, l)
                high == get(self, l2)
            IN  low.ok /\ high.ok /\ low.ret = HashTimes(high.ret, l2 - l)

\* C16: from get(L) alone every get(l) with l <= L is reached by hashing,
\* and no number of hash applications to get(L) gives a get(l) with l > L.
C16_ReleaseDisclosesOnlyBelow ==
    \A self \in RevObjects : \A L, l \in LevelsOf(self) :
        LET released == get(self, L)
            other == get(self, l)
        IN  /\ released.ok /\ other.ok
            /\ l <= L => other.ret = HashTimes(released.ret, L - l)
            /\ l > L => \A k \in 0..(MaxCeiling + 1) : HashTimes(released.ret, k) # other.ret

\* C17: get(level) is the hash applied (level - l2) further times to
\* get(l2), for any l2 <= level.
C17_DerivableFromLowerLevel ==
    \A self \in RevObjects : \A level, l2 \in LevelsOf(self) :
        l2 <= level =>
            LET upper == get(self, level)
                lower == get(self, l2)
            IN  upper.ok /\ lower.ok /\ upper.ret = HashTimes(lower.ret, level - l2)

\* C18: a == b returns a boolean and never raises: True exactly when the
\* two seeds hashed down to the lower of the two ceilings agree.
C18_EqReturnsBoolean ==
    rev.call.op = "eq" =>
        LET m == Min(rev.a.ceiling, rev.b.ceiling)
        IN  /\ rev.call.ok
            /\ rev.call.ret = Some(HashTimes(rev.a.seed, rev.a.ceiling - m)
                                      = HashTimes(rev.b.seed, rev.b.ceiling - m))

(***************************************************************************)
(* Properties of do_generate                                               *)
(***************************************************************************)
\* do_generate has left the loop through its while condition
LoopLeft == miner.cmd = "generate" /\ miner.pc = "returned" /\ miner.ret = None

HeightIncreased == miner.iters > 0 /\ miner.it.height > miner.it.expected

PayoutArgsRefused ==
    /\ miner.cmd \in {"genpsbt", "generate"}
    /\ \/ miner.argv.address = None /\ miner.argv.descriptor = None
       \/ miner.argv.address # None /\ miner.argv.descriptor # None

\* do_generate was called with N < -1 or a target mining time outside 1..600
GenerateArgsInvalid ==
    /\ miner.cmd = "generate" /\ miner.pc \notin {"idle", "fn"}
    /\ ~PayoutArgsRefused
    /\ \/ miner.N < 0 - 1
       \/ /\ miner.target_mining_time # None
          /\ ~(1 <= Val(miner.target_mining_time) /\ Val(miner.target_mining_time) <= 600)

RewardCalled == miner.cmd = "generate" /\ miner.attempts > 0

\* the one payout address of a run with --address or an unranged descriptor
FixedPayout ==
    IF miner.argv.address # None THEN miner.argv.address
    ELSE <<Val(miner.argv.descriptor), 0>>

EndsPeriod(c) == Len(c) >= Period /\ (Len(c) + 1) % Period = 0
SignalledInPeriod(c) ==
    Cardinality({h \in (Len(c) - Period + 1)..Len(c) : Signals(c[h])})
\* the status before the last block of the period was mined
StatusBefore(c) == get_bip9_status(SubSeq(c, 1, Len(c) - 1))

\* C22: no assertion of the test fails, and on the chain of each node that
\* follows the deployment the status differs from the status one block
\* earlier only when the tip ends a 144-block period; at such a tip a
\* started deployment is locked in exactly when at least 108 blocks of the
\* period signalled, and a locked-in one is active whatever those blocks
\* signalled.
C22_StatusChangesAtPeriodEnd ==
    /\ ~vb.failed
    /\ \A n \in VbAware :
          LET c == vb.chain[n]
          IN  Len(c) >= 1 =>
                /\ ~EndsPeriod(c) => get_bip9_status(c) = StatusBefore(c)
                /\ (EndsPeriod(c) /\ StatusBefore(c) = "started") =>
                      /\ get_bip9_status(c) \in {"started", "locked_in"}
                      /\ get_bip9_status(c) = "locked_in" <=> SignalledInPeriod(c) >= 108
                /\ (EndsPeriod(c) /\ StatusBefore(c) = "locked_in") =>
                      get_bip9_status(c) = "active"

\* the test has run to its end: two periods ended started with 107 and 38
\* signalling blocks, one locked in and one became active on blocks that
\* do not signal
C22_Witness ==
    /\ vb.finished /\ ~vb.failed
    /\ Len(vb.chain[0]) = 863
    /\ get_bip9_status(vb.chain[0]) = "active"
    /\ SignalledInPeriod(vb.chain[0]) = 0
    /\ SignalledInPeriod(SubSeq(vb.chain[0], 1, 431)) = 107
    /\ get_bip9_status(SubSeq(vb.chain[0], 1, 431)) = "started"
    /\ SignalledInPeriod(SubSeq(vb.chain[0], 1, 719)) = 144

(***************************************************************************)
(* Properties of calc_partial, calc_pubkey, calc_sig and set_partial       *)
(***************************************************************************)
\* the signer of the honest run's last calc_partial call
LastSigner ==
    IF run.pc = "raised" THEN run.k
    ELSE IF run.pc = "calc_partial" THEN run.k - 1
    ELSE Len(musig.keys)

\* (r1_i + b * r2_i) mod n for signer i
OwnNonce(i) ==
    (session.secretpairs[i][1] + Val(session.b) * session.secretpairs[i][2])
        % SECP256K1_ORDER

\* the nonce scalar after the sign correction the aggregate nonce calls for
CorrectedNonce(i) ==
    IF session.r[1] = 2 THEN OwnNonce(i) ELSE SECP256K1_ORDER - OwnNonce(i)

\* the last call was calc_partial in the honest run, on a session whose
\* tweaked key exists
PartialCalled ==
    /\ run.pc \in {"calc_partial", "calc_sig", "raised"}
    /\ last.op = "calc_partial"
    /\ calc_pubkey(musig, session).ok

\* C23: after calc_partial(i), slot i holds (k + e * mul[i] * x_i) mod n
\* with k = (r1_i + b * r2_i) mod n when the aggregate nonce has sign byte
\* 0x02 and k = n - that when it has sign byte 0x03 (k and the signer's
\* contribution key mul[i] * x_i taken non-zero mod n).
C23_PartialUsesSignCorrectedNonce ==
    (PartialCalled /\ OwnNonce(LastSigner) # 0 /\ musig.pts[LastSigner].v # 0) =>
        LET i == LastSigner
            e == Challenge(session.r[2], calc_pubkey(musig, session).ret[2], session.msg)
        IN  session.partial[i] =
                Some((CorrectedNonce(i) + e * musig.mul[i] * musig.keys[i].v)
                         % SECP256K1_ORDER)

\* the same restricted to an aggregate nonce of sign byte 0x02
PartialEvenNonceOnly ==
    session.r # None /\ session.r[1] = 2 => C23_PartialUsesSignCorrectedNonce

\* <<0x02, x>> of a point other than infinity: its even-y normalisation
EvenYBytes(q) == <<2, PointXY[q][1]>>

\* sign * P + t * G for the session's aggregate key P
TweakedPoint(sign, t) ==
    EcMul(<<<<musig.pubkey, sign>>, <<1, t>>>>)

\* C24: with the tweak (neg, t) calc_pubkey returns the even-y
\* normalisation of (-1)^neg * P + t * G, t not being negated with neg, and
\* without a tweak it returns the bytes of P.
C24_TweakedKeyFormula ==
    LET res == calc_pubkey(musig, session)
        tweak == session.pubkeytweak
    IN  IF tweak = None THEN res.ok /\ res.ret = GetBytes(musig.pubkey)
        ELSE LET q == TweakedPoint(IF tweak[1] THEN SECP256K1_ORDER - 1 ELSE 1, tweak[2])
             IN  q # Infinity => (res.ok /\ res.ret = EvenYBytes(q))

\* what calc_pubkey computes: with neg set, the tweak is negated as well
TweakNegatedWithKey ==
    LET res == calc_pubkey(musig, session)
        tweak == session.pubkeytweak
    IN  tweak # None =>
          LET q == IF tweak[1]
                   THEN TweakedPoint(SECP256K1_ORDER - 1, SECP256K1_ORDER - tweak[2])
                   ELSE TweakedPoint(1, tweak[2])
          IN  IF q = Infinity THEN ~res.ok ELSE res.ok /\ res.ret = EvenYBytes(q)

\* the challenge e of the session: over r, calc_pubkey's key and the message
SessionChallenge ==
    Challenge(session.r[2], calc_pubkey(musig, session).ret[2], session.msg)

\* the sum of the stored partial signatures mod n
PartialSum ==
    SumSeq([i \in 1..Len(musig.keys) |-> Val(session.partial[i])]) % SECP256K1_ORDER

\* the honest run has returned a signature
HonestSigned == run.pc = "done" /\ last.op = "calc_sig" /\ last.ok

\* C25: in a completed honest run of any number of signers, every partial
\* stored by calc_partial is (k_i + e * mul[i] * x_i) mod n, with the tweak
\* present in e alone, and the final s is the sum of the partials plus the
\* one term e * t, the whole negated when neg is set.
C25_TweakAddedOnceInCalcSig ==
    HonestSigned =>
        LET e == SessionChallenge
            tweak == session.pubkeytweak
            s == run.sig[2]
        IN  /\ \A i \in 1..Len(musig.keys) :
                  session.partial[i] =
                      Some((CorrectedNonce(i) + e * musig.mul[i] * musig.keys[i].v)
                               % SECP256K1_ORDER)
            /\ tweak = None => s = PartialSum
            /\ tweak # None =>
                  LET once == (PartialSum + e * tweak[2]) % SECP256K1_ORDER
                  IN  s = IF tweak[1] THEN SECP256K1_ORDER - once ELSE once

\* two signers have signed under a tweak whose term e * t is not zero
C25_Witness ==
    /\ HonestSigned /\ Len(musig.keys) = 2
    /\ session.pubkeytweak # None
    /\ (SessionChallenge * session.pubkeytweak[2]) % SECP256K1_ORDER # 0

\* the partial Schnorr equation s * G = R_i + e * mul[i] * P_i for signer
\* i, R_i = R1_i + b * R2_i negated when the aggregate nonce has odd y
PartialEquation(i, partial) ==
    /\ session.b # None /\ session.r # None /\ session.msg # None
    /\ session.noncepairs[i] # None
    /\ calc_pubkey(musig, session).ok
    /\ partial # None
    /\ LET Ri == EcMul(<<<<session.noncepairs[i][1], 1>>,
                         <<session.noncepairs[i][2], Val(session.b)>>>>)
           corrected == IF session.r[1] = 2 THEN Ri ELSE Negate(Ri)
           e == SessionChallenge
       IN  EcMul(<<<<1, Val(partial)>>>>) =
               EcMul(<<<<corrected, 1>>, <<Neuter(musig.keys[i]), e * musig.mul[i]>>>>)

\* C26: set_partial(i, s) with s not satisfying the partial Schnorr
\* equation of signer i raises and leaves slot i as it was.
C26_BadPartialRejected ==
    [][\A i \in Signers, partial \in PartialInputs :
          (SetPartial(i, partial) /\ ~PartialEquation(i, partial)) =>
              (~last'.ok /\ session'.partial[i] = session.partial[i])]_vars

(***************************************************************************)
(* Properties of RevocableSecret2                                          *)
(***************************************************************************)
\* C27: get(i, j) of a RevocableSecret2 returns, for i below the top
\* ceiling, what RevocableSecret(top.get(i)).get(j) returns; for i equal
\* to the top ceiling what sec.get(j) returns; and with j omitted what
\* top.get(i) returns (levels taken below the ceilings they are read at).
C27_SubLadderFromTopSecret ==
    rev.call.op = "get2" =>
        LET self == rev.call.self
            i == rev.call.level[1]
            j == rev.call.level[2]
        IN  CASE j = None ->
                   (0 <= i /\ i < self.top.ceiling) =>
                       /\ rev.call.ok
                       /\ rev.call.ret = get(self.top, i).ret
              [] j # None /\ i = self.top.ceiling ->
                   (0 <= Val(j) /\ Val(j) < self.sec.ceiling) =>
                       /\ rev.call.ok
                       /\ rev.call.ret = get(self.sec, Val(j)).ret
              [] j # None /\ 0 <= i /\ i < self.top.ceiling ->
                   (0 <= Val(j) /\ Val(j) < max_ceiling) =>
                       /\ rev.call.ok
                       /\ rev.call.ret =
                             get(RevocableSecret(get(self.top, i).ret, None).ret, Val(j)).ret
              [] OTHER -> TRUE

(***************************************************************************)
(* Properties of the stored nonces and partial signatures                  *)
(***************************************************************************)
\* the public nonce points of signer i's stored secrets
OwnPublicNonces(i) ==
    <<PubOf(session.secretpairs[i][1]), PubOf(session.secretpairs[i][2])>>

\* C29: whenever secretpairs[i] is known, noncepairs[i] is the pair
\* (r1 * G, r2 * G) of exactly those secrets.
C29_NoncesMatchSecrets ==
    \A i \in Signers :
        session.secretpairs[i] # None => session.noncepairs[i] = OwnPublicNonces(i)

\* the same for stored secrets that are valid scalars
ValidSecretsMatchNonces ==
    \A i \in Signers :
        (session.secretpairs[i] # None /\ ValidPair(session.secretpairs[i]))
            => session.noncepairs[i] = OwnPublicNonces(i)

\* what calc_partial is to store for signer i from the session's current
\* message, b and r
CurrentPartial(i) ==
    LET pk == calc_pubkey(musig, session)
    IN  IF ~pk.ok THEN None
        ELSE partial_schnorr_sign(session.r[2], pk.ret[2], session.msg,
                                  musig.pts[i].v, Some(CorrectedNonce(i)))

\* b and r are what calc_b_r derives from the current nonce pairs and message
DerivedCurrent ==
    LET res == calc_b_r(musig, session)
    IN  res.ok /\ res.s.b = session.b /\ res.s.r = session.r

\* every slot is filled, by calc_partial, and the stored secrets are the
\* valid ones it signed with
AllSigned ==
    /\ AllPartials(musig, session)
    /\ \A i \in Signers : ValidPair(session.secretpairs[i])

\* C30: when every partial slot is filled, by calc_partial, each stored
\* partial is the one computed from the current message, b and r, and b
\* and r are the values derived from the current nonce pairs and message.
C30_PartialsFromCurrentState ==
    AllSigned =>
        /\ \A i \in Signers : session.partial[i] = CurrentPartial(i)
        /\ DerivedCurrent

\* the first half alone: the stored partials against the current state
StoredPartialsCurrent ==
    AllSigned => \A i \in Signers : session.partial[i] = CurrentPartial(i)

(***************************************************************************)
(* Properties of a failing calc_b_r                                        *)
(***************************************************************************)
\* the session holds a b and an r that were not assigned by one and the
\* same successful calc_b_r: the last calc_b_r raised after assigning b
StaleAggregateNonce ==
    /\ last.op = "calc_b_r" /\ ~last.ok
    /\ session.b # None /\ session.r # None

\* C31: a calc_b_r that raises (a nonce pair missing, no message, or the
\* aggregate nonce at infinity) leaves the session's b and r as they were.
C31_FailedCalcBRKeepsBAndR ==
    [][(CalcBR /\ ~last'.ok) =>
          (session'.b = session.b /\ session'.r = session.r)]_vars

\* the two failures that come before b is assigned do leave b and r alone
EarlyFailureKeepsBAndR ==
    [][(CalcBR /\ ~last'.ok /\ ~DegenerateNonce) =>
          (session'.b = session.b /\ session'.r = session.r)]_vars

(***************************************************************************)
(* Properties of do_generate's signing and submitting                      *)
(***************************************************************************)
\* the step is a submitblock call
Submits == miner'.submits > miner.submits

\* walletprocesspsbt has returned a PSBT that is not complete
SigningIncomplete == miner.it.signed /\ ~miner.it.complete

DerivationAt(k) == <<Val(miner.args.descriptor), k>>

Iterates == miner'.iters = miner.iters + 1

\* the time generate_psbt is asked for
RequestedTime(tmpl, blocktime) ==
    IF blocktime = None THEN tmpl.curtime ELSE Val(blocktime)

MinTimeRaised ==
    /\ miner.it.signed /\ miner.start < miner.it.mintime
    /\ miner.it.nTime = miner.it.mintime

(***************************************************************************)
(* Properties of PSBTMap                                                   *)
(***************************************************************************)
\* the keys of the map are ints in 0..255 or byte strings of length >= 2
ClaimedKeys(m) ==
    \A i \in 1..Len(m) :
        IF m[i][1].int THEN m[i][1].b[1] \in 0..255 ELSE Len(m[i][1].b) >= 2

\* a key of the second map is written as a key of the first is
SameKeyTwice ==
    \E i \in 1..Len(psbt.map), j \in 1..Len(psbt.joined) :
        SerializedKey(psbt.map[i][1]) = SerializedKey(psbt.joined[j][1])

DuplicateRefused ==
    /\ psbt.pc = "readjoined" /\ ClaimedKeys(psbt.map) /\ ClaimedKeys(psbt.joined)
    /\ SameKeyTwice /\ ~psbt.res.ok

\* a one-byte key written as bytes comes back as an int
OneByteKeyChanges ==
    /\ psbt.pc = "read" /\ psbt.res.ok /\ psbt.res.map # psbt.map
    /\ psbt.map = <<<<BytesKey(<<1>>), <<1, 0>>>>>>

(***************************************************************************)
(* Properties of binana.py                                                 *)
(***************************************************************************)
\* the step is a run of main
MainRuns == binana'.pc \in {"ran", "ranagain"}

\* C36: a run of main opens a file for writing exactly when the file does
\* not exist or holds a text other than the one generated, and leaves it
\* with the generated text; a run that follows a run with the definitions
\* and the files unchanged opens neither file and leaves both as they were.
C36_WritesOnlyWhenChanged ==
    [][MainRuns =>
          /\ \A name \in FileNames :
                /\ binana'.opened[name] <=>
                      (binana.files[name] = None
                         \/ Val(binana.files[name]) # TextOf(name, binana.data))
                /\ binana'.files[name] = Some(TextOf(name, binana.data))
          /\ binana'.pc = "ranagain" =>
                /\ \A name \in FileNames : ~binana'.opened[name]
                /\ binana'.files = binana.files]_vars

\* main has run twice on the same definitions, the second time after a
\* first run that wrote both files, and has left both files closed
C36_Witness ==
    /\ binana.pc = "ranagain"
    /\ DOMAIN binana.data = FewKeys
    /\ \A name \in FileNames :
          ~binana.opened[name] /\ binana.files[name] = Some(TextOf(name, binana.data))

\* a run that wrote the header and left the deployment JSON alone
OnlyHeaderWritten ==
    /\ binana.pc = "ran"
    /\ binana.opened["header"] /\ ~binana.opened["deploymentjson"]

\* the generated flags
Flags == binana.gen.header.verify_flags

\* the bits go down from 60 one by one in the order of the flags, none is
\* given twice and bit 63 is never given
BitsDownwardDistinct ==
    binana.pc = "generated" =>
        /\ \A i \in 1..Len(Flags) : Flags[i].bit = FirstScriptVerifyBit - (i - 1)
        /\ \A i, j \in 1..Len(Flags) : i # j => Flags[i].bit # Flags[j].bit
        /\ \A i \in 1..Len(Flags) : Flags[i].bit # 63

\* the flags come in the sorted order of their deployments, SCRIPT_VERIFY
\* before SCRIPT_VERIFY_DISCOURAGE
FlagsInSortedOrder ==
    binana.pc = "generated" =>
        \A i, j \in 1..Len(Flags) :
            i < j => \/ KeyLess(Flags[i].name[2], Flags[j].name[2])
                     \/ /\ Flags[i].name[2] = Flags[j].name[2]
                        /\ Flags[i].name[1] = "SCRIPT_VERIFY"
                        /\ Flags[j].name[1] = "SCRIPT_VERIFY_DISCOURAGE"

\* C37: the generated flags get the bits 60, 59, ... in sorted
\* (year, number, revision) order, no bit twice, never bit 63, and every
\* bit within 0..60, however many deployments there are.
C37_FlagBitsDistinctInRange ==
    binana.pc = "generated" =>
        /\ BitsDownwardDistinct
        /\ FlagsInSortedOrder
        /\ \A i \in 1..Len(Flags) : Flags[i].bit \in 0..60

(***************************************************************************)
(* Properties of P2PNode.on_getdata                                        *)
(***************************************************************************)
\* all items sent so far, in the order sent
AllSent == Concat(node.sent)

\* C38: after every on_getdata the notfound_queue holds fewer than 100
\* items, every notfound message sent holds exactly 100 items, and the
\* items sent, in order, are the first of the items requested, in order of
\* arrival; the items requested and not yet sent are the queue.
C38_NotFoundInBatches ==
    /\ Len(node.notfound_queue) < 100
    /\ \A i \in 1..Len(node.sent) : Len(node.sent[i]) = 100
    /\ Len(AllSent) <= Len(node.requested)
    /\ AllSent = SubSeq(node.requested, 1, Len(AllSent))
    /\ AllSent \o node.notfound_queue = node.requested

\* three getdata messages of 99, 250 and 1 items have been handled: three
\* notfound messages were sent, one of them made of items of two getdata
C38_Witness ==
    /\ node.msgs = 3 /\ Len(node.requested) = 350
    /\ Len(node.sent) = 3 /\ Len(node.notfound_queue) = 50
    /\ node.sent[1][99] # node.sent[1][100] - 1

====
